---- MODULE Spec2Model ----
(***************************************************************************)
(* Telegram -> Google Drive archiving bot: the media-group aggregation     *)
(* engine of bot.py, the topic/user state store of topic_manager.py and    *)
(* the validation/upload contract of drive_uploader.py.                    *)
(*                                                                         *)
(* Execution model.  The bot is one asyncio event loop.  A coroutine runs  *)
(* without interruption until it awaits something that really suspends     *)
(* (asyncio.sleep, a network call of the chat transport, run_in_executor). *)
(* `async with lock` on a free asyncio.Lock does not suspend, and no       *)
(* critical section of the program contains an await, so every critical    *)
(* section runs inside one step.  One action of this module is one such    *)
(* uninterrupted run of one task, from one suspension point to the next.   *)
(***************************************************************************)
EXTENDS Naturals, Integers, Sequences, FiniteSets, Bags, TLC

(***************************************************************************)
(* Bounds of the model                                                     *)
(***************************************************************************)
\* number of inbound attachment events in one behaviour
MaxMsgs == 3
\* number of calls of the state store in one behaviour
MaxCalls == 4
MaxCmds == 2
\* number of updates handed to a handler in one behaviour of the lock level
MaxUpdates == 3

(***************************************************************************)
(* Program constants and input domains                                     *)
(***************************************************************************)
\* MEDIA_GROUP_DELAY_SEC = 1.5, counted in ticks of 0.75 s
MEDIA_GROUP_DELAY_TICKS == 2
\* MAX_FILE_SIZE_BYTES default
MAX_FILE_SIZE_BYTES == 20971520

None == "<None>"
\* media_group_id values of inbound messages
Keys == {"G1", "G2"}
Users == {1, 2}
TopicNames == {"work", "misc"}

REACTION_PROCESSING == "PROCESSING"
REACTION_SUCCESS == "SUCCESS"
REACTION_ERROR == "ERROR"

\* Drive folder ids are opaque handles: configured ones and created albums
NoFolder == <<"none", 0>>
DEFAULT_DRIVE_FOLDER_ID == <<"cfg", 0>>
WorkFolder == <<"cfg", 1>>
MiscFolder == <<"cfg", 2>>

\* What _get_attachment_info extracts from a message: file is FALSE when the
\* message has no photo/video/voice/audio/document.
NoAttachment == [file |-> FALSE, size |-> 0, mime_type |-> None]
SmallJpeg == [file |-> TRUE, size |-> MAX_FILE_SIZE_BYTES, mime_type |-> "image/jpeg"]
BigJpeg == [file |-> TRUE, size |-> MAX_FILE_SIZE_BYTES + 1, mime_type |-> "image/jpeg"]
SmallPdf == [file |-> TRUE, size |-> 1, mime_type |-> "application/pdf"]

VARIABLES
    messages,             \* inbound messages; message_id = index
    media_group_buffer,   \* _media_group_buffer: media_group_id -> entries
    media_group_tasks,    \* _media_group_tasks: media_group_id -> task id
    sched,                \* created, not yet run schedule_media_group tasks per key
    timers,               \* the _task() tasks: sleep, then process_media_group
    singles,              \* the running handle_single_media calls, by message_id
    reactions,            \* message_id -> the set_reaction calls made on it
    drive_folders,        \* folders created in the backend, id = <<"album", index>>
    drive_files,          \* files created in the backend
    topics,               \* TopicManager.topics
    user_states,          \* TopicManager.user_states
    topics_file,          \* content of topics.json
    user_state_file,      \* content of user_topics.json
    default_folder_id,    \* TopicManager.default_folder_id
    allowed_mime_types,   \* DriveUploader.allowed_mime_types (None or a set)
    ret,                  \* the last state-store call and what it returned
    coroutines,           \* lock level: the bag of coroutines in progress
    dispatched            \* lock level: number of updates handed to a handler

aggVars == <<messages, media_group_buffer, media_group_tasks, sched, timers,
            singles, reactions>>
driveVars == <<drive_folders, drive_files>>
storeVars == <<topics, user_states, topics_file, user_state_file, ret>>
cfgVars == <<default_folder_id, allowed_mime_types>>
lockVars == <<coroutines, dispatched>>
vars == <<aggVars, driveVars, storeVars, cfgVars, lockVars>>

(***************************************************************************)
(* topic_manager.py: reads                                                 *)
(***************************************************************************)
\* Python truthiness of an Optional[str]
Truthy(s) == s # None /\ s # ""

\* a lookup that found nothing (Python None in place of a topic dict)
NoTopic == [name |-> None, drive_folder_id |-> NoFolder, hashtag |-> <<>>]

\* self.topics is an insertion-ordered dict name -> topic: a sequence of topic
\* records with distinct names
topic_names(ts) == {ts[i].name : i \in DOMAIN ts}
topic_named(ts, name) == ts[CHOOSE i \in DOMAIN ts : ts[i].name = name]

\* get_topic: self.topics.get(topic_name)
get_topic(topic_name) ==
    IF topic_name \in topic_names(topics) THEN topic_named(topics, topic_name)
    ELSE NoTopic

\* get_user_topic: self.user_states.get(user_id)
get_user_topic(user_id) ==
    IF user_id \in DOMAIN user_states THEN user_states[user_id] ELSE None

\* get_folder_id_for_user that raises whenever no topic resolves, configured
\* default or not
get_folder_id_for_user_no_fallback(user_id) ==
    LET topic_name == get_user_topic(user_id)
        topic == IF Truthy(topic_name) THEN get_topic(topic_name) ELSE NoTopic
    IN  IF topic # NoTopic /\ topic.drive_folder_id # NoFolder
        THEN topic.drive_folder_id
        ELSE NoFolder

\* get_folder_id_for_user; NoFolder stands for the ValueError.  A topic
\* record without the key 'drive_folder_id' carries NoFolder there.
get_folder_id_for_user(user_id) ==
    LET topic_name == get_user_topic(user_id)
        topic == IF Truthy(topic_name) THEN get_topic(topic_name) ELSE NoTopic
    IN  IF topic # NoTopic /\ topic.drive_folder_id # NoFolder
        THEN topic.drive_folder_id
        ELSE IF default_folder_id # NoFolder
             THEN default_folder_id
             ELSE NoFolder

\* get_hashtag_for_user that looks the topic up for every selection but None
get_hashtag_for_user_not_none(user_id) ==
    LET topic_name == get_user_topic(user_id)
        topic == IF topic_name # None THEN get_topic(topic_name) ELSE NoTopic
    IN  topic.hashtag

\* get_hashtag_for_user; <<>> stands for None
get_hashtag_for_user(user_id) ==
    LET topic_name == get_user_topic(user_id)
        topic == IF Truthy(topic_name) THEN get_topic(topic_name) ELSE NoTopic
    IN  topic.hashtag

(***************************************************************************)
(* topic_manager.py: the two files and the operations that write them      *)
(***************************************************************************)
\* A file on disk: absent, unparseable, or holding a JSON document
File(data) == [state |-> "ok", data |-> data]
MissingFile == [state |-> "missing", data |-> <<>>]
CorruptFile == [state |-> "corrupt", data |-> <<>>]

\* str(user_id) and int(key) of the JSON object keys
str(user_id) == IF user_id = 1 THEN "1" ELSE IF user_id = 2 THEN "2" ELSE "0"
int(key) == IF key = "1" THEN 1 ELSE IF key = "2" THEN 2 ELSE 0

\* what open(file, 'w') + json.dump leave on disk: the document; the old file
\* when mkdir/open raises; a truncated file when the write raises after open
SaveOutcomes == {"ok", "not_opened", "truncated"}
written(old, data, outcome) ==
    IF outcome = "ok" THEN File(data)
    ELSE IF outcome = "not_opened" THEN old
    ELSE CorruptFile

\* the outcomes to consider for a save that happens only when `saves` holds
OutcomesIf(saves) == IF saves THEN SaveOutcomes ELSE {"ok"}

\* _save_user_states: {str(user_id): topic_name}; exceptions are only logged
save_user_states(states, outcome) ==
    written(user_state_file,
            [key \in {str(u) : u \in DOMAIN states} |-> states[int(key)]],
            outcome)

\* _save_topics: list(self.topics.values()); exceptions are only logged
save_topics(ts, outcome) == written(topics_file, ts, outcome)

\* _load_topics: the catalog after loading `file`
load_topics(file) == IF file.state = "ok" THEN file.data ELSE <<>>

\* _load_user_states: {int(user_id): topic_name}; an unparseable file is
\* swallowed into the empty mapping
load_user_states(file) ==
    IF file.state = "ok"
    THEN [u \in {int(key) : key \in DOMAIN file.data} |-> file.data[str(u)]]
    ELSE <<>>

\* how _load_topics / _load_user_states found the file, or how the save of the
\* missing-file branch ended ("created" when it wrote the empty document)
load_outcome(file, outcome) ==
    IF file.state = "missing"
    THEN IF outcome = "ok" THEN "created" ELSE outcome
    ELSE IF file.state = "corrupt" THEN "unreadable"
    ELSE "ok"

\* _load_topics without the _save_topics of the missing-file branch
topics_file_after_load_no_write(file, outcome) == file

\* topics.json after _load_topics: a missing file is written back as the
\* empty catalog, any other file is left as found
topics_file_after_load(file, outcome) ==
    IF file.state = "missing" THEN written(file, <<>>, outcome) ELSE file

\* _load_user_states that rewrites an unreadable file as the empty mapping
user_state_file_after_load_rewrites(file, outcome) ==
    IF file.state \in {"missing", "corrupt"} THEN written(file, <<>>, outcome)
    ELSE file

\* user_topics.json after _load_user_states: a missing file is written back as
\* the empty mapping, any other file (an unreadable one too) is left as found
user_state_file_after_load(file, outcome) ==
    IF file.state = "missing" THEN written(file, <<>>, outcome) ELSE file

\* the last call of the store and what it returned; io and tio record how the
\* most recent load or save of user_topics.json and of topics.json ended
\* ("ok", "created", "unreadable" for a load that raised, or the outcome of a
\* failed save); folder is the value a get_folder_id_for_user call returned;
\* added maps each name a successful add_topic of this run registered to its
\* folder, chose maps each user to the name of its last successful
\* set_user_topic of this run with no clear_user_topic since; size, mime and
\* error are the arguments of a DriveUploader call and the exception it raised,
\* requests the number of createFile requests it sent to the backend, hashtag
\* the second component of the pair get_folder_and_hashtag returned, pending
\* the keys of the groups that were buffered when the call ran
NoCall ==
    [n |-> 0, op |-> "init", user_id |-> 0, name |-> None, result |-> TRUE,
     io |-> "ok", tio |-> "ok", folder |-> NoFolder,
     added |-> <<>>, chose |-> <<>>, size |-> 0, mime |-> None, error |-> "ok",
     requests |-> 0, hashtag |-> <<>>, pending |-> {}]
Returned(op, user_id, name, result) ==
    [n |-> ret.n + 1, op |-> op, user_id |-> user_id, name |-> name,
     result |-> result, io |-> ret.io, tio |-> ret.tio, folder |-> NoFolder,
     added |-> ret.added, chose |-> ret.chose,
     size |-> 0, mime |-> None, error |-> "ok",
     requests |-> 0, hashtag |-> <<>>,
     pending |-> DOMAIN media_group_buffer]

\* TopicManager.__init__ over the files on disk (a restart of the process):
\* _load_topics, then _load_user_states; o1 and o2 are the outcomes of the
\* saves of the missing-file branches
TopicManager_init(o1, o2) ==
    /\ ret.n < MaxCalls
    /\ topics' = load_topics(topics_file)
    /\ topics_file' = topics_file_after_load(topics_file, o1)
    /\ user_states' = load_user_states(user_state_file)
    /\ user_state_file' = user_state_file_after_load(user_state_file, o2)
    /\ ret' = [Returned("init", 0, None, TRUE) EXCEPT
                  !.tio = load_outcome(topics_file, o1),
                  !.io = load_outcome(user_state_file, o2),
                  !.added = <<>>,
                  !.chose = <<>>]
    /\ UNCHANGED <<aggVars, driveVars, cfgVars, lockVars>>

\* set_user_topic without the check against the catalog
set_user_topic_unchecked(user_id, topic_name, outcome) ==
    LET new_states ==
            [u \in DOMAIN user_states \cup {user_id} |->
                IF u = user_id THEN topic_name ELSE user_states[u]]
    IN  /\ ret.n < MaxCalls
        /\ user_states' = new_states
        /\ user_state_file' = save_user_states(new_states, outcome)
        /\ ret' = [Returned("set_user_topic", user_id, topic_name,
                            get_topic(topic_name) # NoTopic)
                      EXCEPT !.io = outcome]
        /\ UNCHANGED <<topics, topics_file, aggVars, driveVars, cfgVars, lockVars>>

\* set_user_topic that persists only the entry it changed
set_user_topic_saves_entry(user_id, topic_name, outcome) ==
    /\ ret.n < MaxCalls
    /\ IF get_topic(topic_name) = NoTopic
       THEN /\ ret' = Returned("set_user_topic", user_id, topic_name, FALSE)
            /\ UNCHANGED <<user_states, user_state_file>>
       ELSE LET new_states ==
                    [u \in DOMAIN user_states \cup {user_id} |->
                        IF u = user_id THEN topic_name ELSE user_states[u]]
            IN  /\ user_states' = new_states
                /\ user_state_file' =
                      save_user_states((user_id :> topic_name), outcome)
                /\ ret' = [Returned("set_user_topic", user_id, topic_name, TRUE)
                              EXCEPT !.io = outcome,
                                     !.chose = [u \in DOMAIN @ \cup {user_id} |->
                                                  IF u = user_id THEN topic_name
                                                  ELSE @[u]]]
    /\ UNCHANGED <<topics, topics_file, aggVars, driveVars, cfgVars, lockVars>>

\* set_user_topic that undoes the assignment and reports failure when the
\* save fails
set_user_topic_rolls_back(user_id, topic_name, outcome) ==
    /\ ret.n < MaxCalls
    /\ IF get_topic(topic_name) = NoTopic
       THEN /\ ret' = Returned("set_user_topic", user_id, topic_name, FALSE)
            /\ UNCHANGED <<user_states, user_state_file>>
       ELSE LET new_states ==
                    [u \in DOMAIN user_states \cup {user_id} |->
                        IF u = user_id THEN topic_name ELSE user_states[u]]
            IN  /\ user_states' = IF outcome = "ok" THEN new_states
                                  ELSE user_states
                /\ user_state_file' = save_user_states(new_states, outcome)
                /\ ret' = [Returned("set_user_topic", user_id, topic_name,
                                    outcome = "ok")
                              EXCEPT !.io = outcome]
    /\ UNCHANGED <<topics, topics_file, aggVars, driveVars, cfgVars, lockVars>>

\* set_user_topic that assigns and saves first and looks the topic up after
set_user_topic_checks_late(user_id, topic_name, outcome) ==
    LET new_states ==
            [u \in DOMAIN user_states \cup {user_id} |->
                IF u = user_id THEN topic_name ELSE user_states[u]]
    IN  /\ ret.n < MaxCalls
        /\ user_states' = new_states
        /\ user_state_file' = save_user_states(new_states, outcome)
        /\ ret' = [Returned("set_user_topic", user_id, topic_name,
                            get_topic(topic_name) # NoTopic)
                      EXCEPT !.io = outcome]
        /\ UNCHANGED <<topics, topics_file, aggVars, driveVars, cfgVars, lockVars>>

\* set_user_topic(user_id, topic_name)
set_user_topic(user_id, topic_name, outcome) ==
    /\ ret.n < MaxCalls
    /\ IF get_topic(topic_name) = NoTopic
       THEN /\ ret' = Returned("set_user_topic", user_id, topic_name, FALSE)
            /\ UNCHANGED <<user_states, user_state_file>>
       ELSE LET new_states ==
                    [u \in DOMAIN user_states \cup {user_id} |->
                        IF u = user_id THEN topic_name ELSE user_states[u]]
            IN  /\ user_states' = new_states
                /\ user_state_file' = save_user_states(new_states, outcome)
                /\ ret' = [Returned("set_user_topic", user_id, topic_name, TRUE)
                              EXCEPT !.io = outcome,
                                     !.chose = [u \in DOMAIN @ \cup {user_id} |->
                                                  IF u = user_id THEN topic_name
                                                  ELSE @[u]]]
    /\ UNCHANGED <<topics, topics_file, aggVars, driveVars, cfgVars, lockVars>>

\* clear_user_topic(user_id)
clear_user_topic(user_id, outcome) ==
    /\ ret.n < MaxCalls
    /\ IF user_id \in DOMAIN user_states
       THEN LET new_states ==
                    [u \in DOMAIN user_states \ {user_id} |-> user_states[u]]
            IN  /\ user_states' = new_states
                /\ user_state_file' = save_user_states(new_states, outcome)
                /\ ret' = [Returned("clear_user_topic", user_id, None, TRUE)
                              EXCEPT !.io = outcome,
                                     !.chose = [u \in DOMAIN @ \ {user_id} |-> @[u]]]
       ELSE /\ UNCHANGED <<user_states, user_state_file>>
            /\ ret' = [Returned("clear_user_topic", user_id, None, TRUE)
                          EXCEPT !.chose = [u \in DOMAIN @ \ {user_id} |-> @[u]]]
    /\ UNCHANGED <<topics, topics_file, aggVars, driveVars, cfgVars, lockVars>>

\* add_topic without the `name in self.topics` check: the dict assignment
\* replaces the record of an existing name
add_topic_overwrites(name, drive_folder_id, outcome) ==
    /\ ret.n < MaxCalls
    /\ LET topic == [name |-> name, drive_folder_id |-> drive_folder_id,
                     hashtag |-> <<"#", name>>]
           new_topics ==
               IF name \in topic_names(topics)
               THEN [i \in DOMAIN topics |->
                       IF topics[i].name = name THEN topic ELSE topics[i]]
               ELSE Append(topics, topic)
       IN  /\ topics' = new_topics
           /\ topics_file' = save_topics(new_topics, outcome)
           /\ ret' = [Returned("add_topic", 0, name, TRUE)
                         EXCEPT !.tio = outcome,
                                !.added = (name :> drive_folder_id) @@ @]
    /\ UNCHANGED <<user_states, user_state_file, aggVars, driveVars, cfgVars, lockVars>>

\* add_topic(name, drive_folder_id) with the default hashtag
add_topic(name, drive_folder_id, outcome) ==
    /\ ret.n < MaxCalls
    /\ IF name \in topic_names(topics)
       THEN /\ ret' = Returned("add_topic", 0, name, FALSE)
            /\ UNCHANGED <<topics, topics_file>>
       ELSE LET topic == [name |-> name, drive_folder_id |-> drive_folder_id,
                          hashtag |-> <<"#", name>>]
                new_topics == Append(topics, topic)
            IN  /\ topics' = new_topics
                /\ topics_file' = save_topics(new_topics, outcome)
                /\ ret' = [Returned("add_topic", 0, name, TRUE)
                              EXCEPT !.tio = outcome,
                                     !.added = @ @@ (name :> drive_folder_id)]
    /\ UNCHANGED <<user_states, user_state_file, aggVars, driveVars, cfgVars, lockVars>>

(***************************************************************************)
(* drive_uploader.py                                                       *)
(***************************************************************************)
\* _validate_size with `>=` for `>`
validate_size_rejects_the_limit(size) ==
    IF size >= MAX_FILE_SIZE_BYTES THEN "FileTooLargeError" ELSE "ok"

\* _validate_size: "ok" or the exception raised
validate_size(size) ==
    IF size > MAX_FILE_SIZE_BYTES THEN "FileTooLargeError" ELSE "ok"

\* _validate_mime; allowed_mime_types = {None} stands for the unset allow-list
validate_mime(mime_type) ==
    IF allowed_mime_types = {None} THEN "ok"
    ELSE IF ~Truthy(mime_type) THEN "ok"
    ELSE IF mime_type \notin allowed_mime_types THEN "MimeNotAllowedError"
    ELSE "ok"

\* upload_file_bytes that sends the createFile request again when the first
\* one raised (the second one is accepted)
upload_file_bytes_retries(files, folder_id, filename, size, mime_type, backend_ok) ==
    IF validate_size(size) # "ok"
    THEN [result |-> validate_size(size), files |-> files, requests |-> 0]
    ELSE IF validate_mime(mime_type) # "ok"
    THEN [result |-> validate_mime(mime_type), files |-> files, requests |-> 0]
    ELSE [result |-> "ok",
          files |-> Append(files, [parent |-> folder_id, name |-> filename,
                                   mime_type |-> mime_type]),
          requests |-> IF backend_ok THEN 1 ELSE 2]

\* upload_file_bytes: validate, then one createFile call on the backend, which
\* succeeds or raises (backend_ok).  Returns the result, the files after
\* and the number of createFile requests sent.
upload_file_bytes(files, folder_id, filename, size, mime_type, backend_ok) ==
    IF validate_size(size) # "ok"
    THEN [result |-> validate_size(size), files |-> files, requests |-> 0]
    ELSE IF validate_mime(mime_type) # "ok"
    THEN [result |-> validate_mime(mime_type), files |-> files, requests |-> 0]
    ELSE IF ~backend_ok
    THEN [result |-> "Exception", files |-> files, requests |-> 1]
    ELSE [result |-> "ok",
          files |-> Append(files, [parent |-> folder_id, name |-> filename,
                                   mime_type |-> mime_type]),
          requests |-> 1]

\* the for loop of upload_media_group from item i on; the backend call for
\* item fail_at raises
RECURSIVE upload_items(_, _, _, _, _)
upload_items(files, subfolder_id, items, i, fail_at) ==
    IF i > Len(items) THEN [result |-> "ok", files |-> files]
    ELSE LET att == messages[items[i]].att
             v1 == validate_size(att.size)
             v2 == validate_mime(att.mime_type)
             up == upload_file_bytes(files, subfolder_id, items[i], att.size,
                                     att.mime_type, fail_at # i)
         IN  IF v1 # "ok" THEN [result |-> v1, files |-> files]
             ELSE IF v2 # "ok" THEN [result |-> v2, files |-> files]
             ELSE IF up.result # "ok" THEN up
             ELSE upload_items(up.files, subfolder_id, items, i + 1, fail_at)

\* create_subfolder: one createFolder call, new id returned by the backend
create_subfolder(parent_id) ==
    [id |-> <<"album", Len(drive_folders) + 1>>,
     folders |-> Append(drive_folders, [parent |-> parent_id])]

\* upload_media_group that deletes what it uploaded when an item fails
upload_media_group_rolls_back(folder_id, items, fail_at) ==
    IF fail_at = 0
    THEN [result |-> "Exception", folders |-> drive_folders, files |-> drive_files]
    ELSE LET sub == create_subfolder(folder_id)
             up == upload_items(drive_files, sub.id, items, 1, fail_at)
         IN  [result |-> up.result, folders |-> sub.folders,
              files |-> IF up.result = "ok" THEN up.files ELSE drive_files]

\* upload_media_group that passes folder_id, not subfolder_id, to the uploads
upload_media_group_into_parent(folder_id, items, fail_at) ==
    IF fail_at = 0
    THEN [result |-> "Exception", folders |-> drive_folders, files |-> drive_files]
    ELSE LET sub == create_subfolder(folder_id)
             up == upload_items(drive_files, folder_id, items, 1, fail_at)
         IN  [result |-> up.result, folders |-> sub.folders, files |-> up.files]

\* upload_media_group(folder_id, items); fail_at = 0: create_subfolder raises,
\* fail_at = i: the createFile of item i raises, fail_at > Len(items): the
\* backend never fails.  items are message ids (the filename of an item).
upload_media_group(folder_id, items, fail_at) ==
    IF fail_at = 0
    THEN [result |-> "Exception", folders |-> drive_folders, files |-> drive_files]
    ELSE LET sub == create_subfolder(folder_id)
             up == upload_items(drive_files, sub.id, items, 1, fail_at)
         IN  [result |-> up.result, folders |-> sub.folders, files |-> up.files]

(***************************************************************************)
(* bot.py: media-group aggregation                                         *)
(***************************************************************************)
\* set_reaction: the call is made; a failure of the transport is swallowed
set_reaction(r, message_id, reaction) ==
    [r EXCEPT ![message_id] = Append(@, reaction)]

NewTimer(key) ==
    [key |-> key, pc |-> "sleep", remaining |-> MEDIA_GROUP_DELAY_TICKS,
     entries |-> <<>>, idx |-> 0, items |-> <<>>, folder_id |-> NoFolder,
     calls |-> <<>>]

\* buffer_append with the new member put in front of the group
buffer_append_prepend(mgid, message_id) ==
    /\ IF mgid \notin DOMAIN media_group_buffer
       THEN /\ media_group_buffer' = media_group_buffer @@ (mgid :> <<message_id>>)
            /\ sched' = [sched EXCEPT ![mgid] = @ + 1]
       ELSE /\ media_group_buffer' =
                   [media_group_buffer EXCEPT ![mgid] = <<message_id>> \o @]
            /\ sched' = sched
    /\ timers' = timers
    /\ media_group_tasks' = media_group_tasks

\* buffer_append with create_task outside the `if mgid not in buffer`
buffer_append_always_schedules(mgid, message_id) ==
    /\ media_group_buffer' =
          IF mgid \notin DOMAIN media_group_buffer
          THEN media_group_buffer @@ (mgid :> <<message_id>>)
          ELSE [media_group_buffer EXCEPT ![mgid] = Append(@, message_id)]
    /\ sched' = [sched EXCEPT ![mgid] = @ + 1]
    /\ timers' = timers
    /\ media_group_tasks' = media_group_tasks

\* buffer_append as a sliding window: a later member restarts the delay
buffer_append_sliding(mgid, message_id) ==
    IF mgid \notin DOMAIN media_group_buffer
    THEN /\ media_group_buffer' = media_group_buffer @@ (mgid :> <<message_id>>)
         /\ sched' = [sched EXCEPT ![mgid] = @ + 1]
         /\ timers' = timers
         /\ media_group_tasks' = media_group_tasks
    ELSE /\ media_group_buffer' =
                [media_group_buffer EXCEPT ![mgid] = Append(@, message_id)]
         /\ sched' = sched
         /\ timers' = [t \in DOMAIN timers |->
                         IF timers[t].key = mgid /\ timers[t].pc = "sleep"
                         THEN [timers[t] EXCEPT !.remaining = MEDIA_GROUP_DELAY_TICKS]
                         ELSE timers[t]]
         /\ media_group_tasks' = media_group_tasks

\* buffer_append with the append in the else branch: the first member of a
\* group is not stored
buffer_append_drops_first(mgid, message_id) ==
    /\ IF mgid \notin DOMAIN media_group_buffer
       THEN /\ media_group_buffer' = media_group_buffer @@ (mgid :> <<>>)
            /\ sched' = [sched EXCEPT ![mgid] = @ + 1]
       ELSE /\ media_group_buffer' =
                   [media_group_buffer EXCEPT ![mgid] = Append(@, message_id)]
            /\ sched' = sched
    /\ timers' = timers
    /\ media_group_tasks' = media_group_tasks

\* the buffering branch of handle_media_with_group (under _media_group_lock):
\* the first member of a key creates the group and the schedule_media_group
\* task; a later member is appended and touches no task
buffer_append(mgid, message_id) ==
    /\ IF mgid \notin DOMAIN media_group_buffer
       THEN /\ media_group_buffer' = media_group_buffer @@ (mgid :> <<message_id>>)
            /\ sched' = [sched EXCEPT ![mgid] = @ + 1]
       ELSE /\ media_group_buffer' =
                   [media_group_buffer EXCEPT ![mgid] = Append(@, message_id)]
            /\ sched' = sched
    /\ timers' = timers
    /\ media_group_tasks' = media_group_tasks

\* handle_media_with_group: a message with a media_group_id is buffered; any
\* other goes to handle_single_media, which returns at once when the message
\* has no file and else calls set_reaction(PROCESSING) and starts the download
handle_media_with_group(mgid, user_id, att) ==
    LET message_id == Len(messages) + 1
    IN  /\ Len(messages) < MaxMsgs
        /\ messages' = Append(messages,
                [media_group_id |-> mgid, from_user |-> user_id, att |-> att])
        /\ IF Truthy(mgid)
           THEN /\ buffer_append(mgid, message_id)
                /\ reactions' = Append(reactions, <<>>)
                /\ singles' = singles
           ELSE /\ UNCHANGED <<media_group_buffer, media_group_tasks, sched, timers>>
                /\ IF att.file
                   THEN /\ reactions' = Append(reactions, <<REACTION_PROCESSING>>)
                        /\ singles' = singles @@
                              (message_id :> [pc |-> "download", folder_id |-> NoFolder])
                   ELSE /\ reactions' = Append(reactions, <<>>)
                        /\ singles' = singles
        /\ UNCHANGED <<driveVars, storeVars, cfgVars, lockVars>>

\* handle_single_media whose failed download ends the handler without the
\* ERROR reaction
single_download_silent_failure(message_id, ok) ==
    LET folder_id == get_folder_id_for_user(messages[message_id].from_user)
    IN  /\ message_id \in DOMAIN singles
        /\ singles[message_id].pc = "download"
        /\ IF ok /\ folder_id # NoFolder
           THEN singles' = [singles EXCEPT ![message_id] =
                               [pc |-> "upload", folder_id |-> folder_id]]
           ELSE singles' = [singles EXCEPT ![message_id] =
                               [pc |-> "done", folder_id |-> NoFolder]]
        /\ UNCHANGED reactions
        /\ UNCHANGED <<messages, media_group_buffer, media_group_tasks, sched,
                       timers, driveVars, storeVars, cfgVars, lockVars>>

\* handle_single_media, the download: get_file / download_as_bytearray return
\* (ok) or raise; then the folder is resolved and the upload handed to run_sync
single_download(message_id, ok) ==
    LET folder_id == get_folder_id_for_user(messages[message_id].from_user)
    IN  /\ message_id \in DOMAIN singles
        /\ singles[message_id].pc = "download"
        /\ IF ok /\ folder_id # NoFolder
           THEN /\ singles' = [singles EXCEPT ![message_id] =
                                  [pc |-> "upload", folder_id |-> folder_id]]
                /\ UNCHANGED reactions
           ELSE /\ singles' = [singles EXCEPT ![message_id] =
                                  [pc |-> "done", folder_id |-> NoFolder]]
                /\ reactions' = set_reaction(reactions, message_id, REACTION_ERROR)
        /\ UNCHANGED <<messages, media_group_buffer, media_group_tasks, sched,
                       timers, driveVars, storeVars, cfgVars, lockVars>>

\* handle_single_media, run_sync(_upload) and the reaction that follows it
single_upload(message_id, backend_ok) ==
    LET att == messages[message_id].att
        up == upload_file_bytes(drive_files, singles[message_id].folder_id,
                                message_id, att.size, att.mime_type, backend_ok)
    IN  /\ message_id \in DOMAIN singles
        /\ singles[message_id].pc = "upload"
        /\ drive_files' = up.files
        /\ singles' = [singles EXCEPT ![message_id] =
                          [pc |-> "done", folder_id |-> NoFolder]]
        /\ reactions' = set_reaction(reactions, message_id,
                            IF up.result = "ok" THEN REACTION_SUCCESS
                            ELSE REACTION_ERROR)
        /\ UNCHANGED <<messages, media_group_buffer, media_group_tasks, sched,
                       timers, drive_folders, storeVars, cfgVars, lockVars>>

\* schedule_media_group whose _task() is never created
schedule_media_group_no_task(mgid) ==
    /\ sched[mgid] > 0
    /\ sched' = [sched EXCEPT ![mgid] = @ - 1]
    /\ UNCHANGED <<messages, singles, media_group_buffer, media_group_tasks, timers,
                   reactions, driveVars, storeVars, cfgVars, lockVars>>

\* schedule_media_group: create the _task() task and register its handle
schedule_media_group(mgid) ==
    /\ sched[mgid] > 0
    /\ sched' = [sched EXCEPT ![mgid] = @ - 1]
    /\ timers' = Append(timers, NewTimer(mgid))
    /\ media_group_tasks' =
          [k \in DOMAIN media_group_tasks \cup {mgid} |->
              IF k = mgid THEN Len(timers) + 1 ELSE media_group_tasks[k]]
    /\ UNCHANGED <<messages, singles, media_group_buffer, reactions, driveVars,
                   storeVars, cfgVars, lockVars>>

\* time passes for every task in asyncio.sleep(MEDIA_GROUP_DELAY_SEC)
Tick ==
    /\ \E t \in DOMAIN timers : timers[t].pc = "sleep" /\ timers[t].remaining > 0
    /\ timers' = [t \in DOMAIN timers |->
                    IF timers[t].pc = "sleep" /\ timers[t].remaining > 0
                    THEN [timers[t] EXCEPT !.remaining = @ - 1]
                    ELSE timers[t]]
    /\ UNCHANGED <<messages, singles, media_group_buffer, media_group_tasks, sched,
                   reactions, driveVars, storeVars, cfgVars, lockVars>>

\* process_media_group reading the group without removing it from the buffer
process_media_group_no_pop(t) ==
    LET media_group_id == timers[t].key
        entries == media_group_buffer[media_group_id]
    IN  /\ timers[t].pc = "sleep"
        /\ timers[t].remaining = 0
        /\ media_group_id \in DOMAIN media_group_buffer
        /\ entries # <<>>
        /\ timers' = [timers EXCEPT ![t].pc = "processing", ![t].entries = entries]
        /\ reactions' = set_reaction(reactions, entries[1], REACTION_PROCESSING)
        /\ UNCHANGED <<messages, singles, media_group_buffer, media_group_tasks, sched,
                       driveVars, storeVars, cfgVars, lockVars>>

\* process_media_group without the `del _media_group_tasks[media_group_id]`
process_media_group_keeps_handle(t) ==
    LET media_group_id == timers[t].key
        entries == media_group_buffer[media_group_id]
    IN  /\ timers[t].pc = "sleep"
        /\ timers[t].remaining = 0
        /\ IF media_group_id \notin DOMAIN media_group_buffer
           THEN /\ timers' = [timers EXCEPT ![t].pc = "done"]
                /\ UNCHANGED <<media_group_buffer, reactions>>
           ELSE /\ media_group_buffer' =
                      [k \in DOMAIN media_group_buffer \ {media_group_id} |->
                          media_group_buffer[k]]
                /\ IF entries = <<>>
                   THEN /\ timers' = [timers EXCEPT ![t].pc = "done"]
                        /\ UNCHANGED reactions
                   ELSE /\ timers' = [timers EXCEPT ![t].pc = "processing",
                                                    ![t].entries = entries]
                        /\ reactions' = set_reaction(reactions, entries[1],
                                                     REACTION_PROCESSING)
        /\ UNCHANGED <<messages, singles, sched, media_group_tasks, driveVars,
                       storeVars, cfgVars, lockVars>>

\* process_media_group up to its first await: pop the group under the lock,
\* then call set_reaction(PROCESSING) on the first member
process_media_group(t) ==
    LET media_group_id == timers[t].key
        entries == media_group_buffer[media_group_id]
    IN  /\ timers[t].pc = "sleep"
        /\ timers[t].remaining = 0
        /\ IF media_group_id \notin DOMAIN media_group_buffer
           THEN /\ timers' = [timers EXCEPT ![t].pc = "done"]
                /\ UNCHANGED <<media_group_buffer, media_group_tasks, reactions>>
           ELSE /\ media_group_buffer' =
                      [k \in DOMAIN media_group_buffer \ {media_group_id} |->
                          media_group_buffer[k]]
                /\ media_group_tasks' =
                      [k \in DOMAIN media_group_tasks \ {media_group_id} |->
                          media_group_tasks[k]]
                /\ IF entries = <<>>
                   THEN /\ timers' = [timers EXCEPT ![t].pc = "done"]
                        /\ UNCHANGED reactions
                   ELSE /\ timers' = [timers EXCEPT ![t].pc = "processing",
                                                    ![t].entries = entries]
                        /\ reactions' = set_reaction(reactions, entries[1],
                                                     REACTION_PROCESSING)
        /\ UNCHANGED <<messages, singles, sched, driveVars, storeVars, cfgVars, lockVars>>

\* the members _get_attachment_info finds a file for, in order
with_file(entries) == SelectSeq(entries, LAMBDA m : messages[m].att.file)

\* the locals of a finished process_media_group are gone
Finished(tm) ==
    [tm EXCEPT !.pc = "done", !.idx = 0, !.items = <<>>, !.folder_id = NoFolder]

\* flush_resolve without the `if not items` check: an empty batch is uploaded
flush_resolve_uploads_empty(t) ==
    LET tm == timers[t]
        first_message_id == tm.entries[1]
        user_id == messages[first_message_id].from_user
        folder_id == get_folder_id_for_user(user_id)
    IN  /\ tm.pc = "processing"
        /\ IF folder_id = NoFolder
           THEN /\ timers' = [timers EXCEPT ![t] = Finished(tm)]
                /\ reactions' = set_reaction(reactions, first_message_id,
                                             REACTION_ERROR)
           ELSE /\ timers' = [timers EXCEPT ![t].pc = "download", ![t].idx = 1,
                                            ![t].folder_id = folder_id]
                /\ UNCHANGED reactions
        /\ UNCHANGED <<messages, singles, media_group_buffer, media_group_tasks, sched,
                       driveVars, storeVars, cfgVars, lockVars>>

\* flush_resolve that resolves the destination from the sender of the last
\* member of the group
flush_resolve_last_sender(t) ==
    LET tm == timers[t]
        first_message_id == tm.entries[1]
        user_id == messages[tm.entries[Len(tm.entries)]].from_user
        folder_id == get_folder_id_for_user(user_id)
    IN  /\ tm.pc = "processing"
        /\ IF folder_id = NoFolder \/ with_file(tm.entries) = <<>>
           THEN /\ timers' = [timers EXCEPT ![t] = Finished(tm)]
                /\ reactions' = set_reaction(reactions, first_message_id,
                                             REACTION_ERROR)
           ELSE /\ timers' = [timers EXCEPT ![t].pc = "download", ![t].idx = 1,
                                            ![t].folder_id = folder_id]
                /\ UNCHANGED reactions
        /\ UNCHANGED <<messages, singles, media_group_buffer, media_group_tasks, sched,
                       driveVars, storeVars, cfgVars, lockVars>>

\* process_media_group after PROCESSING was sent: resolve the folder, then
\* start the download of the first member that has a file
flush_resolve(t) ==
    LET tm == timers[t]
        first_message_id == tm.entries[1]
        user_id == messages[first_message_id].from_user
        folder_id == get_folder_id_for_user(user_id)
    IN  /\ tm.pc = "processing"
        /\ IF folder_id = NoFolder \/ with_file(tm.entries) = <<>>
           THEN /\ timers' = [timers EXCEPT ![t] = Finished(tm)]
                /\ reactions' = set_reaction(reactions, first_message_id,
                                             REACTION_ERROR)
           ELSE /\ timers' = [timers EXCEPT ![t].pc = "download", ![t].idx = 1,
                                            ![t].folder_id = folder_id]
                /\ UNCHANGED reactions
        /\ UNCHANGED <<messages, singles, media_group_buffer, media_group_tasks, sched,
                       driveVars, storeVars, cfgVars, lockVars>>

\* flush_download that puts the group back and schedules it again when a
\* download raises
flush_download_retries(t, fail_at) ==
    LET tm == timers[t]
        files == with_file(tm.entries)
        key == tm.key
    IN  /\ tm.pc = "download"
        /\ IF fail_at > Len(files)
           THEN /\ timers' = [timers EXCEPT ![t].items = files,
                                            ![t].idx = Len(files),
                                            ![t].pc = "upload"]
                /\ UNCHANGED <<reactions, media_group_buffer, sched>>
           ELSE /\ timers' = [timers EXCEPT ![t] = Finished(tm)]
                /\ reactions' = set_reaction(reactions, tm.entries[1],
                                             REACTION_ERROR)
                /\ media_group_buffer' =
                      [k \in DOMAIN media_group_buffer \cup {key} |->
                          IF k = key
                          THEN tm.entries \o (IF key \in DOMAIN media_group_buffer
                                              THEN media_group_buffer[key] ELSE <<>>)
                          ELSE media_group_buffer[k]]
                /\ sched' = [sched EXCEPT ![key] = @ + 1]
        /\ UNCHANGED <<messages, singles, media_group_tasks, driveVars, storeVars, cfgVars, lockVars>>

\* the download loop: get_file / download_as_bytearray of each member that has
\* a file, in order; the download of the fail_at-th of them raises, none does
\* when fail_at is beyond the last.  The loop touches only locals of the task,
\* so its awaits are folded into one step.
flush_download(t, fail_at) ==
    LET tm == timers[t]
        files == with_file(tm.entries)
    IN  /\ tm.pc = "download"
        /\ IF fail_at > Len(files)
           THEN /\ timers' = [timers EXCEPT ![t].items = files,
                                            ![t].idx = Len(files),
                                            ![t].pc = "upload"]
                /\ UNCHANGED reactions
           ELSE /\ timers' = [timers EXCEPT ![t] = Finished(tm)]
                /\ reactions' = set_reaction(reactions, tm.entries[1],
                                             REACTION_ERROR)
        /\ UNCHANGED <<messages, singles, media_group_buffer, media_group_tasks, sched,
                       driveVars, storeVars, cfgVars, lockVars>>

\* flush_upload whose except branch reacts after a SUCCESS was already sent
flush_upload_both_signals(t, fail_at) ==
    LET tm == timers[t]
        up == upload_media_group(tm.folder_id, tm.items, fail_at)
        sent == set_reaction(reactions, tm.entries[1], REACTION_SUCCESS)
    IN  /\ tm.pc = "upload"
        /\ drive_folders' = up.folders
        /\ drive_files' = up.files
        /\ timers' = [timers EXCEPT
                        ![t] = [Finished(tm) EXCEPT
                                  !.calls = Append(@, [folder_id |-> tm.folder_id,
                                                       items |-> tm.items,
                                                       result |-> up.result])]]
        /\ reactions' = IF up.result = "ok" THEN sent
                        ELSE set_reaction(sent, tm.entries[1], REACTION_ERROR)
        /\ UNCHANGED <<messages, singles, media_group_buffer, media_group_tasks, sched,
                       storeVars, cfgVars, lockVars>>

\* run_sync(_upload_group) and the reaction that follows it
flush_upload(t, fail_at) ==
    LET tm == timers[t]
        up == upload_media_group(tm.folder_id, tm.items, fail_at)
    IN  /\ tm.pc = "upload"
        /\ drive_folders' = up.folders
        /\ drive_files' = up.files
        /\ timers' = [timers EXCEPT
                        ![t] = [Finished(tm) EXCEPT
                                  !.calls = Append(@, [folder_id |-> tm.folder_id,
                                                       items |-> tm.items,
                                                       result |-> up.result])]]
        /\ reactions' = set_reaction(reactions, tm.entries[1],
                            IF up.result = "ok" THEN REACTION_SUCCESS
                            ELSE REACTION_ERROR)
        /\ UNCHANGED <<messages, singles, media_group_buffer, media_group_tasks, sched,
                       storeVars, cfgVars, lockVars>>

(***************************************************************************)
(* The bot: startup state and next-state relation                          *)
(***************************************************************************)
WorkTopic == [name |-> "work", drive_folder_id |-> WorkFolder, hashtag |-> <<"#", "work">>]

\* the state after main(): TopicManager loaded from its two files, the
\* DriveUploader built with the allow-list `allowed`, nothing buffered
Startup(allowed) ==
    /\ messages = <<>>
    /\ media_group_buffer = <<>>
    /\ media_group_tasks = <<>>
    /\ sched = [k \in Keys |-> 0]
    /\ timers = <<>>
    /\ singles = <<>>
    /\ reactions = <<>>
    /\ drive_folders = <<>>
    /\ drive_files = <<>>
    /\ coroutines = EmptyBag
    /\ dispatched = 0
    /\ topics = <<WorkTopic>>
    /\ user_states = (1 :> "work")
    /\ topics_file = File(<<WorkTopic>>)
    /\ user_state_file = File("1" :> "work")
    /\ default_folder_id = DEFAULT_DRIVE_FOLDER_ID
    /\ allowed_mime_types = allowed
    /\ ret = NoCall

ScheduleRun == \E mgid \in Keys : schedule_media_group(mgid)

TimerFire == \E t \in DOMAIN timers : process_media_group(t)

FlushResolve == \E t \in DOMAIN timers : flush_resolve(t)

FlushDownload ==
    \E t \in DOMAIN timers :
        \E fail_at \in 1 .. Len(with_file(timers[t].entries)) + 1 :
            flush_download(t, fail_at)

FlushUpload ==
    \E t \in DOMAIN timers :
        \E fail_at \in 0 .. Len(timers[t].items) + 1 : flush_upload(t, fail_at)

\* everything the tasks of the aggregation engine do once a message is in
Flushing ==
    \/ ScheduleRun
    \/ Tick
    \/ TimerFire
    \/ FlushResolve
    \/ FlushDownload
    \/ FlushUpload

(***************************************************************************)
(* Spec: bursts on two group keys, members with and without a file         *)
(***************************************************************************)
Init == Startup({None})

Arrive ==
    \E mgid \in Keys, att \in {SmallJpeg, NoAttachment} :
        handle_media_with_group(mgid, 1, att)

Next == Arrive \/ Flushing

Spec == Init /\ [][Next]_vars

(***************************************************************************)
(* SpecFlush: one group key, every kind of member, an allow-list configured*)
(***************************************************************************)
InitFlush == Startup({"image/jpeg"})

ArriveAny ==
    \E att \in {SmallJpeg, BigJpeg, SmallPdf, NoAttachment} :
        handle_media_with_group("G1", 1, att)

NextFlush == ArriveAny \/ Flushing

SpecFlush == InitFlush /\ [][NextFlush]_vars

(***************************************************************************)
(* SpecSingle: messages with and without a media_group_id                  *)
(***************************************************************************)
ArriveMixed ==
    \E mgid \in {None, "G1"}, att \in {SmallJpeg, BigJpeg, SmallPdf, NoAttachment} :
        handle_media_with_group(mgid, 1, att)

SingleDownload ==
    \E m \in DOMAIN singles, ok \in BOOLEAN : single_download(m, ok)

SingleUpload ==
    \E m \in DOMAIN singles, backend_ok \in BOOLEAN : single_upload(m, backend_ok)

NextSingle == ArriveMixed \/ Flushing \/ SingleDownload \/ SingleUpload

SpecSingle == InitFlush /\ [][NextSingle]_vars

(***************************************************************************)
(* FairSpec: the event loop runs every task that is ready, and time passes *)
(***************************************************************************)
ArriveFile == \E mgid \in Keys : handle_media_with_group(mgid, 1, SmallJpeg)

NextFair == ArriveFile \/ Flushing

FairSpec ==
    /\ Init
    /\ [][NextFair]_vars
    /\ WF_vars(ScheduleRun)
    /\ WF_vars(Tick)
    /\ WF_vars(TimerFire)
    /\ WF_vars(FlushResolve)
    /\ WF_vars(FlushDownload)
    /\ WF_vars(FlushUpload)

(***************************************************************************)
(* SpecStore: the TopicManager alone, constructed over any pair of files   *)
(***************************************************************************)
MiscTopic == [name |-> "misc", drive_folder_id |-> MiscFolder, hashtag |-> <<"#", "misc">>]

\* topics.json and user_topics.json as found at startup
StartTopicsFiles == {MissingFile, CorruptFile, File(<<>>), File(<<WorkTopic>>)}
StartUserFiles ==
    {MissingFile, CorruptFile, File(<<>>), File("1" :> "work"),
     File(("1" :> "work") @@ ("2" :> "misc"))}

\* TopicManager.__init__: _load_topics, then _load_user_states; a missing file
\* is written back empty
InitStore ==
    \E tf \in StartTopicsFiles, uf \in StartUserFiles :
    \E o1 \in OutcomesIf(tf.state = "missing"),
       o2 \in OutcomesIf(uf.state = "missing"),
       d \in {NoFolder, DEFAULT_DRIVE_FOLDER_ID} :
        /\ topics = load_topics(tf)
        /\ topics_file = topics_file_after_load(tf, o1)
        /\ user_states = load_user_states(uf)
        /\ user_state_file = user_state_file_after_load(uf, o2)
        /\ default_folder_id = d
        /\ allowed_mime_types = {None}
        /\ ret = [NoCall EXCEPT !.tio = load_outcome(tf, o1),
                                !.io = load_outcome(uf, o2)]
        /\ messages = <<>>
        /\ media_group_buffer = <<>>
        /\ media_group_tasks = <<>>
        /\ sched = [k \in Keys |-> 0]
        /\ timers = <<>>
        /\ singles = <<>>
        /\ reactions = <<>>
        /\ drive_folders = <<>>
        /\ drive_files = <<>>
        /\ coroutines = EmptyBag
        /\ dispatched = 0

SetUserTopic ==
    \E u \in Users, name \in TopicNames :
        \E o \in OutcomesIf(get_topic(name) # NoTopic) :
            set_user_topic(u, name, o)

ClearUserTopic ==
    \E u \in Users :
        \E o \in OutcomesIf(u \in DOMAIN user_states) : clear_user_topic(u, o)

AddTopic ==
    \E name \in TopicNames :
        \E folder \in IF name \in topic_names(topics) THEN {WorkFolder}
                      ELSE {WorkFolder, MiscFolder},
           o \in OutcomesIf(name \notin topic_names(topics)) :
            add_topic(name, folder, o)

\* a caller awaits get_folder_id_for_user(u): it returns a folder id, or
\* raises ValueError (result FALSE)
GetFolderIdForUser ==
    \E u \in Users :
        /\ ret.n < MaxCalls
        /\ ret' = [Returned("get_folder_id_for_user", u, None,
                            get_folder_id_for_user(u) # NoFolder)
                      EXCEPT !.folder = get_folder_id_for_user(u)]
        /\ UNCHANGED <<topics, user_states, topics_file, user_state_file,
                       aggVars, driveVars, cfgVars, lockVars>>

\* the process is stopped and started again over the same two files
Restart ==
    \E o1 \in OutcomesIf(topics_file.state = "missing"),
       o2 \in OutcomesIf(user_state_file.state = "missing") :
        TopicManager_init(o1, o2)

NextStore ==
    SetUserTopic \/ ClearUserTopic \/ AddTopic \/ GetFolderIdForUser \/ Restart

SpecStore == InitStore /\ [][NextStore]_vars

(***************************************************************************)
(* SpecTopics: one group key, members of two senders, and topic commands   *)
(* running between arrivals and flushes                                    *)
(***************************************************************************)
InitTopics ==
    /\ messages = <<>>
    /\ media_group_buffer = <<>>
    /\ media_group_tasks = <<>>
    /\ sched = [k \in Keys |-> 0]
    /\ timers = <<>>
    /\ singles = <<>>
    /\ reactions = <<>>
    /\ drive_folders = <<>>
    /\ drive_files = <<>>
    /\ coroutines = EmptyBag
    /\ dispatched = 0
    /\ topics = <<WorkTopic, MiscTopic>>
    /\ user_states = (1 :> "work")
    /\ topics_file = File(<<WorkTopic, MiscTopic>>)
    /\ user_state_file = File("1" :> "work")
    /\ default_folder_id = DEFAULT_DRIVE_FOLDER_ID
    /\ allowed_mime_types = {None}
    /\ ret = NoCall

ArriveFrom ==
    \E u \in Users, att \in {SmallJpeg} :
        handle_media_with_group("G1", u, att)

\* user 1 sends /topic <name> or /<name> (cmd_topic, cmd_topic_by_name); the
\* write succeeds
SelectTopic ==
    \E name \in TopicNames :
        ret.n < MaxCmds /\ set_user_topic(1, name, "ok")

\* the downloads and the upload of a flush, none of which fails
DownloadAll ==
    \E t \in DOMAIN timers :
        flush_download(t, Len(with_file(timers[t].entries)) + 1)

UploadAll ==
    \E t \in DOMAIN timers : flush_upload(t, Len(timers[t].items) + 1)

NextTopics ==
    \/ ArriveFrom
    \/ ScheduleRun
    \/ Tick
    \/ TimerFire
    \/ FlushResolve
    \/ DownloadAll
    \/ UploadAll
    \/ SelectTopic

SpecTopics == InitTopics /\ [][NextTopics]_vars

(***************************************************************************)
(* SpecValidate: the DriveUploader alone, built with any allow-list and    *)
(* called with payloads around the size limit and of any MIME type         *)
(***************************************************************************)
Sizes == {0, MAX_FILE_SIZE_BYTES - 1, MAX_FILE_SIZE_BYTES, MAX_FILE_SIZE_BYTES + 1}
MimeTypes == {None, "", "image/jpeg", "application/pdf"}
\* allowed_mime_types: unset, or a list (which a direct caller may leave empty)
AllowLists == {{None}, {}, {"image/jpeg"}}

InitValidate ==
    \E allowed \in AllowLists : Startup(allowed)

\* a caller runs upload_file_bytes(folder_id, filename, content, mime_type)
UploadFileBytes ==
    \E size \in Sizes, mime_type \in MimeTypes, backend_ok \in BOOLEAN :
        LET up == upload_file_bytes(drive_files, default_folder_id, ret.n + 1,
                                    size, mime_type, backend_ok)
        IN  /\ ret.n < MaxCalls
            /\ drive_files' = up.files
            /\ ret' = [Returned("upload_file_bytes", 0, None, up.result = "ok")
                          EXCEPT !.size = size, !.mime = mime_type,
                                 !.error = up.result,
                                 !.requests = up.requests]
            /\ UNCHANGED <<drive_folders, topics, user_states, topics_file,
                           user_state_file, aggVars, cfgVars, lockVars>>

NextValidate == UploadFileBytes

SpecValidate == InitValidate /\ [][NextValidate]_vars

(***************************************************************************)
(* SpecFresh: a TopicManager started with neither file on disk, and never  *)
(* restarted                                                               *)
(***************************************************************************)
InitFresh ==
    \E o1 \in SaveOutcomes, o2 \in SaveOutcomes,
       d \in {NoFolder, DEFAULT_DRIVE_FOLDER_ID} :
        /\ topics = load_topics(MissingFile)
        /\ topics_file = topics_file_after_load(MissingFile, o1)
        /\ user_states = load_user_states(MissingFile)
        /\ user_state_file = user_state_file_after_load(MissingFile, o2)
        /\ default_folder_id = d
        /\ allowed_mime_types = {None}
        /\ ret = [NoCall EXCEPT !.tio = load_outcome(MissingFile, o1),
                                !.io = load_outcome(MissingFile, o2)]
        /\ messages = <<>>
        /\ media_group_buffer = <<>>
        /\ media_group_tasks = <<>>
        /\ sched = [k \in Keys |-> 0]
        /\ timers = <<>>
        /\ singles = <<>>
        /\ reactions = <<>>
        /\ drive_folders = <<>>
        /\ drive_files = <<>>
        /\ coroutines = EmptyBag
        /\ dispatched = 0

NextFresh == SetUserTopic \/ ClearUserTopic \/ AddTopic

SpecFresh == InitFresh /\ [][NextFresh]_vars

(***************************************************************************)
(* SpecNames: the TopicManager called with any str as a topic name, the    *)
(* empty one included (add_topic and set_user_topic do not restrict it)    *)
(***************************************************************************)
AnyNames == {"work", ""}

InitNames ==
    \E d \in {NoFolder, DEFAULT_DRIVE_FOLDER_ID} :
        /\ topics = load_topics(File(<<>>))
        /\ topics_file = topics_file_after_load(File(<<>>), "ok")
        /\ user_states = load_user_states(File(<<>>))
        /\ user_state_file = user_state_file_after_load(File(<<>>), "ok")
        /\ default_folder_id = d
        /\ allowed_mime_types = {None}
        /\ ret = NoCall
        /\ messages = <<>>
        /\ media_group_buffer = <<>>
        /\ media_group_tasks = <<>>
        /\ sched = [k \in Keys |-> 0]
        /\ timers = <<>>
        /\ singles = <<>>
        /\ reactions = <<>>
        /\ drive_folders = <<>>
        /\ drive_files = <<>>
        /\ coroutines = EmptyBag
        /\ dispatched = 0

SetUserTopicAny ==
    \E u \in Users, name \in AnyNames :
        \E o \in OutcomesIf(get_topic(name) # NoTopic) :
            set_user_topic(u, name, o)

AddTopicAny ==
    \E name \in AnyNames :
        \E folder \in IF name \in topic_names(topics) THEN {WorkFolder}
                      ELSE {WorkFolder, MiscFolder},
           o \in OutcomesIf(name \notin topic_names(topics)) :
            add_topic(name, folder, o)

\* a handler awaits get_folder_and_hashtag(u): get_folder_id_for_user, then
\* get_hashtag_for_user, neither of which suspends; the ValueError of the
\* first leaves the second unread (result FALSE)
GetFolderAndHashtag ==
    \E u \in Users :
        LET folder_id == get_folder_id_for_user(u)
            hashtag == get_hashtag_for_user(u)
        IN  /\ ret.n < MaxCalls
            /\ ret' = [Returned("get_folder_and_hashtag", u, None,
                                folder_id # NoFolder)
                          EXCEPT !.folder = folder_id,
                                 !.hashtag = IF folder_id # NoFolder
                                             THEN hashtag ELSE <<>>]
            /\ UNCHANGED <<topics, user_states, topics_file, user_state_file,
                           aggVars, driveVars, cfgVars, lockVars>>

NextNames ==
    \/ SetUserTopicAny
    \/ ClearUserTopic
    \/ AddTopicAny
    \/ GetFolderIdForUser
    \/ GetFolderAndHashtag
    \/ Restart

SpecNames == InitNames /\ [][NextNames]_vars

(***************************************************************************)
(* The lock level: what each coroutine does with the three asyncio locks   *)
(* and where it suspends.  A coroutine is the sequence of steps it has     *)
(* left and the set of locks it holds.  Every acquisition, every release   *)
(* and every resumption is a step of its own, so that the coroutines       *)
(* interleave at least as freely as the event loop lets them.              *)
(***************************************************************************)
media_group_lock == "_media_group_lock"
topics_lock == "topics_lock"
user_state_lock == "user_state_lock"
Locks == {media_group_lock, topics_lock, user_state_lock}

acquire(lock) == [k |-> "acquire", x |-> lock]
release(lock) == [k |-> "release", x |-> lock]
\* an await that suspends the coroutine: the sleep, a Telegram request, a
\* download, run_in_executor
await(what) == [k |-> "await", x |-> what]
create_task(coro) == [k |-> "create_task", x |-> coro]

\* async with lock: body
async_with(lock, body) == <<acquire(lock)>> \o body \o <<release(lock)>>

get_topic_steps == async_with(topics_lock, <<>>)
get_user_topic_steps == async_with(user_state_lock, <<>>)

\* get_folder_id_for_user: get_user_topic, then get_topic when a name is
\* selected
get_folder_id_for_user_steps(selected) ==
    get_user_topic_steps \o (IF selected THEN get_topic_steps ELSE <<>>)

get_hashtag_for_user_steps(selected) ==
    get_user_topic_steps \o (IF selected THEN get_topic_steps ELSE <<>>)

get_folder_and_hashtag_steps(selected) ==
    get_folder_id_for_user_steps(selected) \o get_hashtag_for_user_steps(selected)

\* set_user_topic that looks the topic up inside user_state_lock
set_user_topic_steps_nested(found) ==
    async_with(user_state_lock, get_topic_steps)

\* set_user_topic: get_topic, and when the topic was found the assignment
\* and the save under user_state_lock
set_user_topic_steps(found) ==
    get_topic_steps
        \o (IF found THEN async_with(user_state_lock, <<>>) ELSE <<>>)

clear_user_topic_steps == async_with(user_state_lock, <<>>)

add_topic_steps == async_with(topics_lock, <<>>)

\* handle_media_with_group of a message with a media_group_id; the first
\* message of a group creates the schedule_media_group task inside the lock
handle_media_with_group_steps(first) ==
    async_with(media_group_lock,
               IF first THEN <<create_task("schedule_media_group")>> ELSE <<>>)

schedule_media_group_steps ==
    <<create_task("process_media_group")>> \o async_with(media_group_lock, <<>>)

\* process_media_group that keeps _media_group_lock until the downloads are
\* done
process_media_group_steps_locked_downloads(present, selected) ==
    <<await("sleep")>>
        \o async_with(media_group_lock,
                      IF present
                      THEN <<await("set_reaction")>>
                              \o get_folder_and_hashtag_steps(selected)
                              \o <<await("download")>>
                      ELSE <<>>)
        \o (IF present THEN <<await("upload")>> ELSE <<>>)

\* _task: the sleep, then process_media_group; present is whether the group
\* was found in the buffer with entries, selected whether the sender has a
\* topic selected.  The awaits of the download loop count as one, and so do
\* the upload and the reaction that follows it.
process_media_group_steps(present, selected) ==
    <<await("sleep")>>
        \o async_with(media_group_lock, <<>>)
        \o (IF present
            THEN <<await("set_reaction")>>
                    \o get_folder_and_hashtag_steps(selected)
                    \o <<await("download"), await("upload")>>
            ELSE <<>>)

\* handle_single_media of a message that has a file
handle_single_media_steps(selected) ==
    <<await("set_reaction"), await("download")>>
        \o get_folder_and_hashtag_steps(selected)
        \o <<await("upload")>>

Coroutine(op, steps) == [op |-> op, rest |-> steps, holds |-> {}]

\* the coroutines the application starts for an update, and the state-store
\* operations a caller may run
Handlers ==
    {Coroutine("handle_media_with_group", handle_media_with_group_steps(first)) :
        first \in BOOLEAN}
    \cup {Coroutine("handle_single_media", handle_single_media_steps(selected)) :
            selected \in BOOLEAN}
    \cup {Coroutine("set_user_topic", set_user_topic_steps(found)) :
            found \in BOOLEAN}
    \cup {Coroutine("clear_user_topic", clear_user_topic_steps),
          Coroutine("add_topic", add_topic_steps)}

\* the coroutines create_task(coro) may start
Created(coro) ==
    IF coro = "schedule_media_group"
    THEN {Coroutine(coro, schedule_media_group_steps)}
    ELSE {Coroutine(coro, process_media_group_steps(present, selected)) :
            present \in BOOLEAN, selected \in BOOLEAN}

Running == BagToSet(coroutines)
Holders(lock) == {c \in Running : lock \in c.holds}
NextStep(c) == Head(c.rest)

\* coroutine c has made its step and become d; a coroutine with no step left
\* has returned
Advance(c, d) ==
    coroutines' =
        IF d.rest = <<>>
        THEN coroutines (-) SetToBag({c})
        ELSE (coroutines (-) SetToBag({c})) (+) SetToBag({d})

StoreAndBotUnchanged == UNCHANGED <<aggVars, driveVars, storeVars, cfgVars>>

\* the application hands an update to its handler
Dispatch ==
    \E h \in Handlers :
        /\ dispatched < MaxUpdates
        /\ dispatched' = dispatched + 1
        /\ coroutines' = coroutines (+) SetToBag({h})
        /\ StoreAndBotUnchanged

\* asyncio.Lock.acquire: taken at once when the lock is free, else the
\* coroutine waits
LockAcquire ==
    \E c \in Running :
        /\ NextStep(c).k = "acquire"
        /\ Holders(NextStep(c).x) = {}
        /\ Advance(c, [c EXCEPT !.rest = Tail(@), !.holds = @ \cup {NextStep(c).x}])
        /\ UNCHANGED dispatched
        /\ StoreAndBotUnchanged

LockRelease ==
    \E c \in Running :
        /\ NextStep(c).k = "release"
        /\ Advance(c, [c EXCEPT !.rest = Tail(@), !.holds = @ \ {NextStep(c).x}])
        /\ UNCHANGED dispatched
        /\ StoreAndBotUnchanged

\* what a suspended coroutine awaited has completed
Resume ==
    \E c \in Running :
        /\ NextStep(c).k = "await"
        /\ Advance(c, [c EXCEPT !.rest = Tail(@)])
        /\ UNCHANGED dispatched
        /\ StoreAndBotUnchanged

CreateTask ==
    \E c \in Running :
        /\ NextStep(c).k = "create_task"
        /\ \E t \in Created(NextStep(c).x) :
              coroutines' =
                  ((coroutines (-) SetToBag({c}))
                      (+) SetToBag({[c EXCEPT !.rest = Tail(@)]}))
                      (+) SetToBag({t})
        /\ UNCHANGED dispatched
        /\ StoreAndBotUnchanged

NextLocks == Dispatch \/ LockAcquire \/ LockRelease \/ Resume \/ CreateTask

SpecLocks == Init /\ [][NextLocks]_vars

(***************************************************************************)
(* Properties of the aggregation engine                                    *)
(***************************************************************************)
Last(seq) == seq[Len(seq)]
Flushed(t) == timers[t].entries # <<>>
Sleeping(k) == {t \in DOMAIN timers : timers[t].key = k /\ timers[t].pc = "sleep"}
InFlight(t) == timers[t].pc \in {"processing", "download", "upload"}
\* a step that handles one inbound message
Arrival == Len(messages') = Len(messages) + 1
ArrivedKey == messages'[Len(messages')].media_group_id
AllHaveFile(entries) == with_file(entries) = entries

\* the state part of C1
C1_State ==
    \A t \in DOMAIN timers :
        LET tm == timers[t]
        IN  /\ Len(tm.calls) <= 1
            /\ \A i, j \in DOMAIN tm.entries :
                  /\ messages[tm.entries[i]].media_group_id = tm.key
                  /\ i < j => tm.entries[i] < tm.entries[j]
            /\ tm.pc = "upload" => tm.items = with_file(tm.entries)
            /\ \A c \in DOMAIN tm.calls :
                  /\ tm.calls[c].items = with_file(tm.entries)
                  /\ AllHaveFile(tm.entries) => tm.calls[c].items = tm.entries
            /\ (Flushed(t) /\ Last(reactions[tm.entries[1]]) = REACTION_SUCCESS)
                  => Len(tm.calls) = 1

\* the step part of C1
C1_Step ==
    /\ Arrival =>
          media_group_buffer'[ArrivedKey] =
              Append(IF ArrivedKey \in DOMAIN media_group_buffer
                     THEN media_group_buffer[ArrivedKey] ELSE <<>>,
                     Len(messages'))
    /\ \A t \in DOMAIN timers :
          (timers[t].pc = "sleep" /\ timers'[t].pc # "sleep") =>
              /\ timers[t].key \in DOMAIN media_group_buffer
              /\ timers[t].key \notin DOMAIN media_group_buffer'
              /\ timers'[t].entries = media_group_buffer[timers[t].key]
              /\ \A u \in DOMAIN timers : u # t => timers'[u] = timers[u]

\* C1 (as amended): every member handled for a key is appended to the live
\* group of that key in arrival order; the one timer of the group, when it
\* fires, takes the whole group out of the buffer and no other task takes any
\* of it; upload_media_group is invoked at most once for the group, exactly
\* once when the flush ends in SUCCESS, and the batch it receives is the
\* members that have a file, in arrival order: all N when each has one.
C1_OneFlushWholeGroupInOrder == []C1_State /\ [][C1_Step]_vars

\* C1 as stated: once the flush of a group of attachments has ended,
\* upload_media_group was invoked exactly once for it, with all N members.
C1_Original ==
    \A t \in DOMAIN timers :
        (timers[t].pc = "done" /\ Flushed(t) /\ AllHaveFile(timers[t].entries))
            => /\ Len(timers[t].calls) = 1
               /\ timers[t].calls[1].items = timers[t].entries

\* witness of C1: a burst of three attachments flushed as one batch of three
C1_Witness ==
    \E t \in DOMAIN timers :
        /\ timers[t].pc = "done"
        /\ timers[t].entries = <<1, 2, 3>>
        /\ Len(timers[t].calls) = 1
        /\ timers[t].calls[1].items = <<1, 2, 3>>
        /\ timers[t].calls[1].result = "ok"

C2_State ==
    /\ \A k \in DOMAIN media_group_buffer :
          /\ sched[k] + Cardinality(Sleeping(k)) = 1
          /\ \A t \in DOMAIN timers :
                \A i \in DOMAIN timers[t].entries, j \in DOMAIN media_group_buffer[k] :
                    timers[t].entries[i] # media_group_buffer[k][j]
    /\ \A t \in DOMAIN timers :
          \A c \in DOMAIN timers[t].calls :
              \A i \in DOMAIN timers[t].calls[c].items :
                  \E j \in DOMAIN timers[t].entries :
                      timers[t].entries[j] = timers[t].calls[c].items[i]

C2_Step ==
    /\ \A t \in DOMAIN timers :
          Flushed(t) => timers'[t].entries = timers[t].entries
    /\ (/\ Arrival
        /\ ArrivedKey \notin DOMAIN media_group_buffer
        /\ \E t \in DOMAIN timers : timers[t].key = ArrivedKey /\ Flushed(t))
          => /\ media_group_buffer'[ArrivedKey] = <<Len(messages')>>
             /\ sched'[ArrivedKey] = sched[ArrivedKey] + 1
             /\ timers' = timers

\* C2: a message handled after the flush of its key has taken the group out of
\* the buffer starts a new group holding only that message, with a flush of
\* its own scheduled; the members of a flushed group never change, a live
\* group shares no member with a flushed one, and a flush uploads only
\* members of the group it took.
C2_LateEventStartsNewGroup == []C2_State /\ [][C2_Step]_vars

\* witness of C2: a new group is live, with its flush pending, under the key
\* of a group whose flush is still in flight
C2_Witness ==
    \E t \in DOMAIN timers :
        /\ InFlight(t)
        /\ timers[t].key \in DOMAIN media_group_buffer
        /\ sched[timers[t].key] + Cardinality(Sleeping(timers[t].key)) = 1

\* C3: for every key, the schedule_media_group tasks not yet run and the
\* timer tasks still sleeping are at most one together, and the buffer and
\* the handle table hold at most one entry for the key.
C3_AtMostOneScheduledFlush ==
    \A k \in Keys :
        /\ sched[k] + Cardinality(Sleeping(k)) <= 1
        /\ k \in DOMAIN media_group_tasks =>
              /\ media_group_tasks[k] \in DOMAIN timers
              /\ timers[media_group_tasks[k]].key = k

\* witness of C3: both keys collecting, each with its one sleeping timer, one
\* of the groups with a second member
C3_Witness ==
    /\ DOMAIN media_group_buffer = Keys
    /\ \A k \in Keys : Cardinality(Sleeping(k)) = 1
    /\ \E k \in Keys : Len(media_group_buffer[k]) = 2

\* C4: handling a second or later member of a collecting group leaves the
\* pending schedule tasks, every timer task (its remaining delay included)
\* and the handle table as they were.
C4_AppendKeepsTheDeadline ==
    [][(Arrival /\ ArrivedKey \in DOMAIN media_group_buffer)
          => /\ sched' = sched
             /\ timers' = timers
             /\ media_group_tasks' = media_group_tasks]_vars

\* witness of C4: a group that got a second member while its timer, part of
\* the delay already gone, is still sleeping
C4_Witness ==
    \E k \in DOMAIN media_group_buffer :
        /\ Len(media_group_buffer[k]) >= 2
        /\ \E t \in Sleeping(k) : timers[t].remaining < MEDIA_GROUP_DELAY_TICKS

\* how often message m occurs in the live buffer and in the flushed groups
Occurrences(m) ==
    Cardinality(UNION {{<<k, i>> : i \in {i \in DOMAIN media_group_buffer[k] :
                                             media_group_buffer[k][i] = m}} :
                       k \in DOMAIN media_group_buffer})
    + Cardinality(UNION {{<<t, i>> : i \in {i \in DOMAIN timers[t].entries :
                                               timers[t].entries[i] = m}} :
                         t \in DOMAIN timers})

\* C5: every buffered message is, at any time, either in the live group of
\* its key or in the member list of exactly one flush, never in both, never
\* in two flushes and never in neither.
C5_ConsumedExactlyOnce ==
    \A m \in DOMAIN messages : Occurrences(m) = 1

\* witness of C5: three messages on two keys, all consumed, by two flushes
C5_Witness ==
    /\ Len(messages) = 3
    /\ DOMAIN media_group_buffer = {}
    /\ \E t, u \in DOMAIN timers :
          /\ timers[t].key # timers[u].key
          /\ Len(timers[t].entries) = 2
          /\ Len(timers[u].entries) = 1

\* C6: under fair scheduling every key that is in the buffer leaves it
\* again, and until its flush a sleeping timer task only loses delay: no step
\* removes a timer task or ends one that has not taken its group.
C6_EveryGroupIsFlushed ==
    /\ \A k \in Keys :
          (k \in DOMAIN media_group_buffer) ~> (k \notin DOMAIN media_group_buffer)
    /\ [][\A t \in DOMAIN timers :
            /\ t \in DOMAIN timers'
            /\ timers[t].pc = "sleep" =>
                  \/ /\ timers'[t].pc = "sleep"
                     /\ timers'[t].remaining <= timers[t].remaining
                  \/ /\ timers[t].key \in DOMAIN media_group_buffer
                     /\ timers'[t].entries = media_group_buffer[timers[t].key]
                     /\ timers[t].key \notin DOMAIN media_group_buffer']_vars

\* witness of C6: the group of two members of a key was created and its flush
\* has taken it out of the buffer
C6_Witness ==
    \E t \in DOMAIN timers :
        /\ Len(timers[t].entries) = 2
        /\ timers[t].key \notin DOMAIN media_group_buffer

(***************************************************************************)
(* Properties of one flush                                                 *)
(***************************************************************************)
\* C7: the reactions set on the first member of a flushed group are
\* PROCESSING alone while the flush is in flight and PROCESSING followed by
\* one of SUCCESS and ERROR once it has ended; no reaction is ever set on
\* another member or on a message still in the buffer.
C7_ProcessingThenOneTerminal ==
    /\ \A t \in DOMAIN timers :
          Flushed(t) =>
              LET sent == reactions[timers[t].entries[1]]
              IN  /\ InFlight(t) => sent = <<REACTION_PROCESSING>>
                  /\ timers[t].pc = "done" =>
                        sent \in {<<REACTION_PROCESSING, REACTION_SUCCESS>>,
                                  <<REACTION_PROCESSING, REACTION_ERROR>>}
                  /\ \A i \in DOMAIN timers[t].entries :
                        i > 1 => reactions[timers[t].entries[i]] = <<>>
    /\ \A k \in DOMAIN media_group_buffer :
          \A i \in DOMAIN media_group_buffer[k] :
              reactions[media_group_buffer[k][i]] = <<>>

\* witness of C7: a flush of two members that ended in SUCCESS and a flush
\* that ended in ERROR
C7_Witness ==
    \E t, u \in DOMAIN timers :
        /\ Len(timers[t].entries) = 2
        /\ reactions[timers[t].entries[1]] = <<REACTION_PROCESSING, REACTION_SUCCESS>>
        /\ Flushed(u)
        /\ reactions[timers[u].entries[1]] = <<REACTION_PROCESSING, REACTION_ERROR>>

\* a step in which the flush t ends in ERROR
Fails(t) ==
    /\ timers[t].pc # "done"
    /\ timers'[t].pc = "done"
    /\ Flushed(t)
    /\ Last(reactions'[timers[t].entries[1]]) = REACTION_ERROR

\* C8: the step in which a flush fails changes neither the buffer nor the
\* pending schedule tasks and creates no timer task; a flush that has ended
\* never changes again, so upload_media_group is invoked at most once for
\* its group; and a key enters the buffer only in the step that handles an
\* inbound message with that key.
C8_FailedFlushIsNotRetried ==
    /\ [](\A t \in DOMAIN timers : Len(timers[t].calls) <= 1)
    /\ [][/\ \A t \in DOMAIN timers :
               /\ Fails(t) =>
                     /\ media_group_buffer' = media_group_buffer
                     /\ sched' = sched
                     /\ Len(timers') = Len(timers)
                     /\ media_group_tasks' = media_group_tasks
               /\ timers[t].pc = "done" => timers'[t] = timers[t]
          /\ \A k \in Keys :
               (k \notin DOMAIN media_group_buffer /\ k \in DOMAIN media_group_buffer')
                  => (Arrival /\ ArrivedKey = k)]_vars

\* witness of C8: three flushes have failed, one on a validation error, one
\* on a download error (no upload_media_group call) and one on a storage
\* error, and nothing is buffered or scheduled
C8_Witness ==
    /\ DOMAIN media_group_buffer = {}
    /\ \A k \in Keys : sched[k] = 0
    /\ \E t, u, v \in DOMAIN timers :
          /\ timers[t].pc = "done" /\ timers[u].pc = "done" /\ timers[v].pc = "done"
          /\ Len(timers[t].calls) = 1
          /\ timers[t].calls[1].result = "FileTooLargeError"
          /\ with_file(timers[u].entries) # <<>>
          /\ timers[u].calls = <<>>
          /\ Len(timers[v].calls) = 1
          /\ timers[v].calls[1].result = "Exception"

\* C9: a flushed group none of whose members has a file never reaches an
\* upload_media_group call, ends with PROCESSING, ERROR on its first member,
\* and creates no folder: the folders of the backend are no more than the
\* upload_media_group calls made.
C9_EmptyGroupIsDropped ==
    /\ \A t \in DOMAIN timers :
          (Flushed(t) /\ with_file(timers[t].entries) = <<>>) =>
              /\ timers[t].calls = <<>>
              /\ timers[t].pc \in {"processing", "done"}
              /\ timers[t].pc = "done" =>
                    reactions[timers[t].entries[1]] =
                        <<REACTION_PROCESSING, REACTION_ERROR>>
    /\ Len(drive_folders) <=
          Cardinality({t \in DOMAIN timers : timers[t].calls # <<>>})

\* witness of C9: a group of two members without a file was flushed and dropped
C9_Witness ==
    \E t \in DOMAIN timers :
        /\ timers[t].pc = "done"
        /\ Len(timers[t].entries) = 2
        /\ with_file(timers[t].entries) = <<>>
        /\ drive_folders = <<>>

(***************************************************************************)
(* Properties of the state store                                           *)
(***************************************************************************)
\* a step that is a call of `op`
Called(op) == ret'.n = ret.n + 1 /\ ret'.op = op

\* C10: a set_user_topic call whose topic name is not in the catalog returns
\* False and leaves user_states and the user-state file as they were.
C10_UnknownTopicChangesNothing ==
    [][(Called("set_user_topic") /\ ret'.name \notin topic_names(topics))
          => /\ ret'.result = FALSE
             /\ user_states' = user_states
             /\ user_state_file' = user_state_file]_vars

\* witness of C10: such a call has returned False for a user who has a
\* selection, with the other topic in the catalog
C10_Witness ==
    /\ ret.op = "set_user_topic"
    /\ ret.result = FALSE
    /\ ret.name \notin topic_names(topics)
    /\ topics # <<>>
    /\ ret.user_id \in DOMAIN user_states
    /\ user_state_file.state = "ok"

\* the user-state file as a successful _save_user_states of `states` leaves it
OnDisk(states) == save_user_states(states, "ok")
\* the entry of user u in a mapping (None when absent)
Entry(states, u) == IF u \in DOMAIN states THEN states[u] ELSE None

\* the state part of C11: when the most recent load or save of the user-state
\* file succeeded, the file holds exactly the in-memory mapping
C11_State ==
    ret.io \in {"ok", "created"} => user_state_file = OnDisk(user_states)

\* the step part of C11: a successful set_user_topic leaves the caller's
\* entry at the new name and every other entry alone, and when its write did
\* not fail the file holds the full new mapping; while the process runs an
\* entry changes only by a successful set_user_topic or a clear_user_topic of
\* its own user
C11_Step ==
    /\ (Called("set_user_topic") /\ ret'.result) =>
          /\ Entry(user_states', ret'.user_id) = ret'.name
          /\ \A v \in Users \ {ret'.user_id} :
                Entry(user_states', v) = Entry(user_states, v)
          /\ (ret'.io = "ok" => user_state_file' = OnDisk(user_states'))
    /\ \A u \in Users :
          Entry(user_states', u) # Entry(user_states, u) =>
            \/ Called("init")
            \/ /\ ret'.user_id = u
               /\ \/ Called("set_user_topic") /\ ret'.result
                  \/ Called("clear_user_topic")

C13_MissingFilesAreNotFatal ==
    [][Called("init") =>
         /\ topics_file.state = "missing" =>
               /\ ret'.result = TRUE
               /\ topics' = <<>>
               /\ ret'.tio \in {"created", "not_opened", "truncated"}
               /\ (ret'.tio = "created" => topics_file' = File(<<>>))
         /\ user_state_file.state = "missing" =>
               /\ ret'.result = TRUE
               /\ user_states' = <<>>]_vars

\* witness of C13: a start has found neither file, come up empty and created
\* the catalog file
C13_Witness ==
    /\ ret.op = "init"
    /\ ret.n >= 1
    /\ ret.tio = "created"
    /\ ret.io \in {"created", "not_opened"}
    /\ topics = <<>>
    /\ topics_file = File(<<>>)
    /\ user_states = <<>>

\* a save that raised: the file could not be opened, or the write was cut short
FailedSave == {"not_opened", "truncated"}

\* C14: when the save fails inside set_user_topic or add_topic, the call still
\* returns True and the in-memory assignment stays, whatever the file holds.
C14_FailedSaveKeepsTheMutation ==
    [][/\ (/\ Called("set_user_topic")
            /\ ret'.name \in topic_names(topics)
            /\ ret'.io \in FailedSave)
          => /\ ret'.result = TRUE
             /\ Entry(user_states', ret'.user_id) = ret'.name
       /\ (/\ Called("add_topic")
            /\ ret'.name \notin topic_names(topics)
            /\ ret'.tio \in FailedSave)
          => /\ ret'.result = TRUE
             /\ Len(topics') = Len(topics) + 1
             /\ topics'[Len(topics')].name = ret'.name]_vars

\* witness of C14: set_user_topic has returned True although its save could
\* not open the file, and the file now lacks the selection the mapping holds
C14_Witness ==
    /\ ret.op = "set_user_topic"
    /\ ret.result = TRUE
    /\ ret.io = "not_opened"
    /\ user_states[ret.user_id] = ret.name
    /\ user_state_file.state = "ok"
    /\ user_state_file # OnDisk(user_states)

\* C15: for a user without a selection get_folder_id_for_user returns the
\* configured default folder, and raises the no-destination error when no
\* default folder is configured.
C15_NoSelectionGivesTheDefault ==
    [][(Called("get_folder_id_for_user") /\ ret'.user_id \notin DOMAIN user_states)
          => IF default_folder_id # NoFolder
             THEN ret'.result = TRUE /\ ret'.folder = default_folder_id
             ELSE ret'.result = FALSE /\ ret'.folder = NoFolder]_vars

\* witness of C15: the catalog has a topic and another user has selected it;
\* the call for the user without a selection has returned the default folder
C15_Witness ==
    /\ ret.op = "get_folder_id_for_user"
    /\ ret.user_id \notin DOMAIN user_states
    /\ user_states # <<>>
    /\ topics # <<>>
    /\ ret.result = TRUE
    /\ ret.folder = DEFAULT_DRIVE_FOLDER_ID

\* the folder the user's call history of this run points at: the one given to
\* the successful add_topic of the name the user's last successful
\* set_user_topic chose
Chosen(u) == ret.chose[u]
AddedThenChosen(u) == u \in DOMAIN ret.chose /\ Chosen(u) \in DOMAIN ret.added

\* C16: once add_topic(name, folder) and then set_user_topic(u, name) have
\* succeeded, and no later set_user_topic or clear_user_topic of u has
\* completed, get_folder_id_for_user(u) returns that folder, whatever was done
\* for other users and other names.
C16_AddSetResolve ==
    [][(Called("get_folder_id_for_user") /\ AddedThenChosen(ret'.user_id))
          => /\ ret'.result = TRUE
             /\ ret'.folder = ret.added[Chosen(ret'.user_id)]]_vars

\* the same for every name but the empty one, which `if topic_name` takes
\* for no selection
NonEmptyNameResolves ==
    [][(/\ Called("get_folder_id_for_user")
        /\ AddedThenChosen(ret'.user_id)
        /\ Chosen(ret'.user_id) # "")
          => /\ ret'.result = TRUE
             /\ ret'.folder = ret.added[Chosen(ret'.user_id)]]_vars

\* C17: add_topic of a name the catalog already holds returns False and
\* leaves the catalog and the catalog file as they were; add_topic of a new
\* name appends exactly the record of that name and folder and writes the
\* whole catalog (when the write does not fail); a name is registered by at
\* most one successful add_topic, however the calls are interleaved, and no
\* two records of the catalog share a name.
C17_AddTopicRejectsDuplicates ==
    /\ [](\A i \in DOMAIN topics, j \in DOMAIN topics :
            topics[i].name = topics[j].name => i = j)
    /\ [][Called("add_topic") =>
            IF ret'.name \in topic_names(topics)
            THEN /\ ret'.result = FALSE
                 /\ topics' = topics
                 /\ topics_file' = topics_file
            ELSE /\ ret'.result = TRUE
                 /\ ret'.name \notin DOMAIN ret.added
                 /\ Len(topics') = Len(topics) + 1
                 /\ \A i \in DOMAIN topics : topics'[i] = topics[i]
                 /\ topics'[Len(topics')].name = ret'.name
                 /\ topics'[Len(topics')].drive_folder_id = ret'.added[ret'.name]
                 /\ (ret'.tio = "ok" => topics_file' = File(topics'))]_vars

\* witness of C17: of two add_topic calls with the same new name the first
\* has succeeded and the second has just returned False; the catalog holds
\* one record of that name, with the folder of the first call, beside another
C17_Witness ==
    /\ ret.op = "add_topic"
    /\ ret.result = FALSE
    /\ ret.name \in DOMAIN ret.added
    /\ Len(topics) = 2
    /\ topic_named(topics, ret.name).drive_folder_id = ret.added[ret.name]
    /\ topics_file = File(topics)

(***************************************************************************)
(* Properties of the upload orchestrator                                   *)
(***************************************************************************)
\* C18: a payload larger than the limit is rejected as too large whatever
\* its MIME type, one of exactly the limit is not; with no allow-list no MIME
\* type is rejected; with an allow-list an absent or empty MIME type passes
\* and a non-empty one passes exactly when it is in the list.
C18_Validation ==
    [][Called("upload_file_bytes") =>
         /\ ret'.size > MAX_FILE_SIZE_BYTES =>
               /\ ret'.error = "FileTooLargeError"
               /\ drive_files' = drive_files
         /\ ret'.size <= MAX_FILE_SIZE_BYTES =>
               /\ ret'.error # "FileTooLargeError"
               /\ IF allowed_mime_types = {None}
                  THEN ret'.error # "MimeNotAllowedError"
                  ELSE ret'.error = "MimeNotAllowedError"
                         <=> /\ ret'.mime \notin {None, ""}
                             /\ ret'.mime \notin allowed_mime_types
               /\ ret'.error = "MimeNotAllowedError" => drive_files' = drive_files
               /\ ret'.error = "ok" => Len(drive_files') = Len(drive_files) + 1]_vars

\* witness of C18: under an allow-list a payload of exactly the limit with an
\* empty MIME type has been stored, after one of a listed type
C18_Witness ==
    /\ ret.op = "upload_file_bytes"
    /\ allowed_mime_types = {"image/jpeg"}
    /\ ret.size = MAX_FILE_SIZE_BYTES
    /\ ret.mime = ""
    /\ ret.error = "ok"
    /\ Len(drive_files) = 2
    /\ drive_files[1].mime_type = "image/jpeg"

\* what validation says of the payload of message m
Validation(m) ==
    IF validate_size(messages[m].att.size) # "ok"
    THEN validate_size(messages[m].att.size)
    ELSE validate_mime(messages[m].att.mime_type)
\* the position of the first item that fails validation, 0 when none does
FirstInvalid(items) ==
    IF \A i \in DOMAIN items : Validation(items[i]) = "ok" THEN 0
    ELSE CHOOSE k \in DOMAIN items :
            /\ Validation(items[k]) # "ok"
            /\ \A i \in 1 .. k - 1 : Validation(items[i]) = "ok"
\* a step in which flush t runs upload_media_group, and what that call added
UploadStep(t) ==
    t \in DOMAIN timers /\ timers[t].pc = "upload" /\ timers'[t].pc = "done"
NewFiles == SubSeq(drive_files', Len(drive_files) + 1, Len(drive_files'))
NewFolders == SubSeq(drive_folders', Len(drive_folders) + 1, Len(drive_folders'))
IsPrefix(a, b) == Len(a) <= Len(b) /\ SubSeq(b, 1, Len(a)) = a

\* C19: when item k is the first of a batch to fail validation, the call
\* uploads no item at position k or later; provided the backend accepted the
\* sub-folder and the k-1 items before it, exactly those k-1 items are
\* uploaded, in order, the call raises the validation error of item k, and
\* what was uploaded stays: nothing is ever removed from the backend.
C19_PartialBatchIsNotRolledBack ==
    [][/\ IsPrefix(drive_files, drive_files')
       /\ IsPrefix(drive_folders, drive_folders')
       /\ \A t \in DOMAIN timers :
            LET items == timers[t].items
                k == FirstInvalid(items)
                call == Last(timers'[t].calls)
            IN  (UploadStep(t) /\ k > 0) =>
                  /\ call.result # "ok"
                  /\ Len(NewFiles) <= k - 1
                  /\ \A i \in DOMAIN NewFiles : NewFiles[i].name = items[i]
                  /\ call.result \in {"FileTooLargeError", "MimeNotAllowedError"}
                        <=> (NewFolders # <<>> /\ Len(NewFiles) = k - 1)
                  /\ call.result \in {"FileTooLargeError", "MimeNotAllowedError"}
                        => call.result = Validation(items[k])]_vars

\* witness of C19: the third item of a batch was too large; the call raised
\* FileTooLargeError and the first two items are in the new sub-folder
C19_Witness ==
    \E t \in DOMAIN timers :
        /\ Len(timers[t].calls) = 1
        /\ timers[t].calls[1].items = <<1, 2, 3>>
        /\ timers[t].calls[1].result = "FileTooLargeError"
        /\ Len(drive_folders) = 1
        /\ Len(drive_files) = 2
        /\ drive_files[1].name = 1
        /\ drive_files[2].name = 2

\* the id the backend gave the i-th folder it created
FolderId(i) == <<"album", i>>

\* C20: a call of upload_media_group creates one new sub-folder under the
\* folder it was given (none only when the backend refuses that creation,
\* and then no item is uploaded); every item the call uploads goes into that
\* new sub-folder, in the order given; a call that succeeds leaves one new
\* folder holding all its items, N for a group whose N members all have a
\* file.
C20_OneNewFolderPerBatch ==
    [][\A t \in DOMAIN timers :
         LET items == timers[t].items
             call == Last(timers'[t].calls)
         IN  UploadStep(t) =>
               /\ Len(NewFolders) <= 1
               /\ NewFolders = <<>> =>
                     call.result = "Exception" /\ NewFiles = <<>>
               /\ NewFolders # <<>> =>
                     /\ NewFolders[1].parent = call.folder_id
                     /\ Len(NewFiles) <= Len(items)
                     /\ \A i \in DOMAIN NewFiles :
                           /\ NewFiles[i].parent = FolderId(Len(drive_folders'))
                           /\ NewFiles[i].name = items[i]
               /\ call.result = "ok" =>
                     /\ Len(NewFolders) = 1
                     /\ Len(NewFiles) = Len(items)
                     /\ AllHaveFile(timers[t].entries) =>
                           Len(NewFiles) = Len(timers[t].entries)]_vars

\* witness of C20: a group of three has been flushed with SUCCESS; the
\* backend holds one new folder under the user's folder and in it the three
\* items in arrival order
C20_Witness ==
    \E t \in DOMAIN timers :
        /\ Len(timers[t].calls) = 1
        /\ timers[t].calls[1].items = <<1, 2, 3>>
        /\ timers[t].calls[1].result = "ok"
        /\ reactions[1] = <<REACTION_PROCESSING, REACTION_SUCCESS>>
        /\ drive_folders = <<[parent |-> timers[t].calls[1].folder_id]>>
        /\ Len(drive_files) = 3
        /\ \A i \in 1 .. 3 :
              drive_files[i].parent = FolderId(1) /\ drive_files[i].name = i

\* C21: upload_file_bytes sends no createFile request when validation fails,
\* and exactly one otherwise: a request the backend fails is not repeated, the
\* call raises the backend's error and nothing is stored.
C21_ValidateThenOneRequest ==
    [][Called("upload_file_bytes") =>
         /\ ret'.requests <= 1
         /\ ret'.error \in {"FileTooLargeError", "MimeNotAllowedError"} =>
               ret'.requests = 0 /\ drive_files' = drive_files
         /\ ret'.error = "Exception" =>
               /\ ret'.requests = 1
               /\ ret'.result = FALSE
               /\ drive_files' = drive_files
         /\ ret'.error = "ok" =>
               /\ ret'.requests = 1
               /\ Len(drive_files') = Len(drive_files) + 1]_vars

\* witness of C21: after one payload was stored, the backend failed the
\* request for a second, valid one; the call raised after that one request
C21_Witness ==
    /\ ret.op = "upload_file_bytes"
    /\ ret.error = "Exception"
    /\ ret.requests = 1
    /\ ret.result = FALSE
    /\ ret.n = 2
    /\ Len(drive_files) = 1

(***************************************************************************)
(* Properties of the single-attachment path                                *)
(***************************************************************************)
\* the messages that came without a media_group_id and carry a file
Keyless == {m \in DOMAIN messages : ~Truthy(messages[m].media_group_id)}
\* the stored files that hold the payload of message m
FilesOf(m) == {i \in DOMAIN drive_files : drive_files[i].name = m}

\* the state part of C22
C22_State ==
    \A m \in Keyless :
        /\ \A k \in DOMAIN media_group_buffer :
              \A i \in DOMAIN media_group_buffer[k] : media_group_buffer[k][i] # m
        /\ \A t \in DOMAIN timers :
              \A i \in DOMAIN timers[t].entries : timers[t].entries[i] # m
        /\ messages[m].att.file =>
              /\ m \in DOMAIN singles
              /\ IF singles[m].pc = "done"
                 THEN reactions[m] \in
                        {<<REACTION_PROCESSING, REACTION_SUCCESS>>,
                         <<REACTION_PROCESSING, REACTION_ERROR>>}
                 ELSE reactions[m] = <<REACTION_PROCESSING>>
              /\ Cardinality(FilesOf(m)) =
                    IF Last(reactions[m]) = REACTION_SUCCESS THEN 1 ELSE 0
              /\ \A i \in FilesOf(m) :
                    drive_files[i].parent = get_folder_id_for_user(messages[m].from_user)

\* the step part of C22: the arrival of a keyless message leaves the buffer,
\* the schedule and the timers alone, and a step of its handler reacts on no
\* other message
C22_Step ==
    /\ (Arrival /\ ~Truthy(ArrivedKey)) =>
          UNCHANGED <<media_group_buffer, media_group_tasks, sched, timers,
                      drive_folders, drive_files>>
    /\ \A m \in DOMAIN singles :
          singles'[m] # singles[m] =>
            /\ drive_folders' = drive_folders
            /\ \A o \in DOMAIN reactions \ {m} : reactions'[o] = reactions[o]

\* C22: a message with a file and no media_group_id is never put in the
\* buffer or in a flush and schedules nothing; its handler reacts with
\* PROCESSING and then with exactly one of SUCCESS and ERROR, on its own
\* message id only; on SUCCESS its payload is stored once, directly in the
\* sender's folder with no album folder created.
C22_SingleAttachment == []C22_State /\ [][C22_Step]_vars

\* witness of C22: while a group is buffered, a keyless message has been
\* stored with SUCCESS and another one has ended in ERROR
C22_Witness ==
    /\ media_group_buffer # <<>>
    /\ \E m \in Keyless, o \in Keyless :
          /\ reactions[m] = <<REACTION_PROCESSING, REACTION_SUCCESS>>
          /\ reactions[o] = <<REACTION_PROCESSING, REACTION_ERROR>>
          /\ FilesOf(m) # {}
          /\ FilesOf(o) = {}

(***************************************************************************)
(* Properties of the timer handles                                         *)
(***************************************************************************)
\* C25: every key that has a handle in _media_group_tasks has a live group in
\* _media_group_buffer, and the handle is that of the group's own sleeping
\* timer: a flush leaves no handle behind.
C25_HandleImpliesLiveGroup ==
    \A k \in DOMAIN media_group_tasks :
        /\ k \in DOMAIN media_group_buffer
        /\ media_group_buffer[k] # <<>>
        /\ media_group_tasks[k] \in Sleeping(k)

\* witness of C25: the first group of a key has been flushed and its handle
\* removed; the second group of the same key is live under its own handle
C25_Witness ==
    \E k \in DOMAIN media_group_tasks :
        /\ media_group_tasks[k] = 2
        /\ timers[1].key = k
        /\ Flushed(1)
        /\ timers[2].key = k
        /\ k \in DOMAIN media_group_buffer

\* C27: on a store started without files, whatever add_topic, set_user_topic
\* and clear_user_topic calls have run, every name in user_states is the name
\* of a topic of the catalog.
C27_SelectionsAreInTheCatalog ==
    \A u \in DOMAIN user_states : user_states[u] \in topic_names(topics)

\* witness of C27: two topics were added and each user has selected another
\* one of them
C27_Witness ==
    /\ ret.op = "set_user_topic"
    /\ ret.result = TRUE
    /\ DOMAIN user_states = Users
    /\ user_states[1] # user_states[2]
    /\ Len(topics) = 2

Selected(u) ==
    IF u \in DOMAIN user_states /\ user_states[u] \in topic_names(topics)
    THEN topic_named(topics, user_states[u]).drive_folder_id
    ELSE default_folder_id

\* C28: a flush resolves its destination once, after the group was taken out
\* of the buffer, from the selection the sender of the first member has at
\* that moment; the destination does not change while the flush downloads,
\* the one upload_media_group call is given it, and every file the flush
\* uploads goes into one new folder under it.
C28_OneDestinationPerFlush ==
    [][\A t \in DOMAIN timers :
         LET tm == timers[t]
             call == Last(timers'[t].calls)
         IN  /\ (tm.pc = "sleep" /\ timers'[t].pc # "sleep") =>
                    timers'[t].folder_id = NoFolder
             /\ (tm.pc = "processing" /\ timers'[t].pc = "download") =>
                    timers'[t].folder_id =
                       Selected(messages[tm.entries[1]].from_user)
             /\ (tm.pc = "download" /\ timers'[t].pc = "upload") =>
                    timers'[t].folder_id = tm.folder_id
             /\ (tm.pc \in {"download", "upload"} /\ timers'[t] = tm) =>
                    timers'[t].folder_id = tm.folder_id
             /\ UploadStep(t) =>
                   /\ call.folder_id = tm.folder_id
                   /\ Len(NewFolders) <= 1
                   /\ \A i \in DOMAIN NewFolders :
                         NewFolders[i].parent = tm.folder_id
                   /\ \A i \in DOMAIN NewFiles :
                         /\ NewFolders # <<>>
                         /\ NewFiles[i].parent = FolderId(Len(drive_folders'))]_vars

\* witness of C28: sender 1 had selected "work" when the group's members
\* arrived, selected "misc" while the group was buffered, and the flush put
\* the whole group, a member of sender 2 included, under the folder of "misc"
C28_Witness ==
    /\ ret.n = 1
    /\ ret.op = "set_user_topic"
    /\ ret.user_id = 1
    /\ ret.name = "misc"
    /\ ret.result = TRUE
    /\ "G1" \in ret.pending
    /\ Len(timers) = 1
    /\ Len(messages) = 2
    /\ messages[1].from_user = 1
    /\ messages[2].from_user = 2
    /\ timers[1].entries = <<1, 2>>
    /\ timers[1].calls =
          <<[folder_id |-> MiscFolder, items |-> <<1, 2>>, result |-> "ok"]>>
    /\ drive_folders = <<[parent |-> MiscFolder]>>
    /\ Len(drive_files) = 2
    /\ \A i \in 1 .. 2 : drive_files[i].parent = FolderId(1)

\* a coroutine that can make its next step now
Runnable(c) ==
    NextStep(c).k = "acquire" => Holders(NextStep(c).x) = {}

\* C23: no coroutine holds two locks at once, no lock has two holders, and
\* whenever coroutines are in progress one of them can make its next step,
\* however the handlers, the flushes and the state-store operations are
\* interleaved.
C23_NoNestedLocksNoDeadlock ==
    /\ \A c \in Running : Cardinality(c.holds) <= 1
    /\ \A lock \in Locks :
          /\ Cardinality(Holders(lock)) <= 1
          /\ \A c \in Holders(lock) : CopiesIn(c, coroutines) = 1
    /\ Running # {} => \E c \in Running : Runnable(c)
    /\ \A c \in Running :
          ~Runnable(c) => \E h \in Holders(NextStep(c).x) : Runnable(h)

\* witness of C23: a flush resolving its destination holds the
\* user-selection lock while a set_user_topic holds the catalog lock and an
\* intake holds the live-group lock
C23_Witness ==
    /\ \E c \in Holders(user_state_lock) : c.op = "process_media_group"
    /\ \E c \in Holders(topics_lock) : c.op = "set_user_topic"
    /\ \E c \in Holders(media_group_lock) : c.op = "handle_media_with_group"

\* the steps coroutine c makes before it releases lock
UntilRelease(c, lock) ==
    LET i == CHOOSE i \in DOMAIN c.rest :
                 /\ c.rest[i] = release(lock)
                 /\ \A j \in 1 .. i - 1 : c.rest[j] # release(lock)
    IN  SubSeq(c.rest, 1, i - 1)

\* C24: a coroutine that holds _media_group_lock releases it without
\* suspending and without taking another lock; so no coroutine that awaits a
\* download, an upload or a reaction, or that is resolving a destination,
\* holds it, and an intake that finds it taken waits only for a holder that
\* is itself not waiting for anything.
C24_LiveGroupLockHeldBriefly ==
    /\ \A c \in Holders(media_group_lock) :
          \A i \in DOMAIN UntilRelease(c, media_group_lock) :
              UntilRelease(c, media_group_lock)[i].k = "create_task"
    /\ \A c \in Running :
          (\/ NextStep(c).k = "await"
           \/ NextStep(c).x \in {topics_lock, user_state_lock}
           \/ c.holds \cap {topics_lock, user_state_lock} # {})
              => media_group_lock \notin c.holds
    /\ \A c \in Running :
          (c.op = "handle_media_with_group" /\ ~Runnable(c)) =>
              \E h \in Holders(media_group_lock) :
                  NextStep(h).k \in {"release", "create_task"}

\* witness of C24: one flush is downloading, another is uploading, and the
\* intake of a new attachment holds the live-group lock
C24_Witness ==
    /\ \E c \in Running :
          c.op = "process_media_group" /\ NextStep(c) = await("download")
    /\ \E c \in Running :
          c.op = "process_media_group" /\ NextStep(c) = await("upload")
    /\ \E c \in Holders(media_group_lock) : c.op = "handle_media_with_group"

====
